---- MODULE Spec2Model ----
(***************************************************************************)
(* Model of the bdcat-ingest prototype scripts (process.py,                *)
(* process_directory.py, process_localdir_to_aws.py): the provider-A       *)
(* (S3) multipart checksum, the receipt-manifest rewrite                   *)
(* (update_manifest_file) under the checksum worker pool, and the per-row  *)
(* transfer loop with interrupt and --resume.                              *)
(*                                                                         *)
(* Strings are modelled as tuples: the empty string '' is <<>>, a path is  *)
(* <<scheme, bucket, key...>>, a digest string is <<encoding, ...>>.       *)
(*                                                                         *)
(* Four specifications share the variables:                                *)
(*   SpecDigest    the checksum functions on bounded files;                *)
(*   Spec          process.py --aws on local files with a thread pool,     *)
(*                 signals at any point, and a --resume run;               *)
(*   SpecTransfer  the three scripts with one pool thread over local and   *)
(*                 cloud sources, rejected transfers, signals between      *)
(*                 rows, and --resume runs.                                *)
(*   SpecValidate  one invocation of each script, process_dicom_in_gcs.py  *)
(*                 included, on inputs validation may refuse: unreadable   *)
(*                 sources, missing or unwritable buckets, --test.         *)
(***************************************************************************)
EXTENDS Integers, Sequences, FiniteSets, TLC

\* ------------------------------------------------------------------------
\* Bounds of the model
\* ------------------------------------------------------------------------
\* longest file, in blocks, given to the checksum functions
MaxFileLen == 5
\* largest --chunk-size, in blocks
MaxChunkSize == 3

\* boto_multipart_threshold = 64 * 1024 * 1024 bytes, in blocks of 16 MiB
boto_multipart_threshold == 4

Min(a, b) == IF a < b THEN a ELSE b

\* ------------------------------------------------------------------------
\* Digest strings
\* ------------------------------------------------------------------------
\* hashlib.md5(data): the digest object of one message.  The hash is
\* modelled as collision free: the digest of a message is the message
\* itself under a level tag (0: a hash of file bytes, 1: a hash of the
\* concatenated raw digests of the listed chunks).
md5(data) == <<0, <<data>>>>

\* m.hexdigest()
hexdigest(m) == <<"hex", m[1], m[2]>>

\* base64 text of a digest, as the provider-B client reports md5_hash
b64digest(m) == <<"b64", m[1], m[2]>>

\* hashlib.md5(b''.join(m.digest() for m in md5s)): md5s is the list of the
\* per-chunk digest objects, each standing for its chunk
md5_of_digests(md5s) == <<1, [i \in 1..Len(md5s) |-> md5s[i][2][1]]>>

\* hashlib.md5(''.join(m.hexdigest() ...)): the hash of the hex strings, a
\* different message than the raw digests
md5_of_hexdigests(md5s) == <<2, [i \in 1..Len(md5s) |-> md5s[i][2][1]]>>

\* '{}-{}'.format(hex, n)
with_suffix(hex, n) == hex \o <<"-", n>>

\* "-" in md5sum
has_dash(s) == Len(s) = 5

\* the read loop: data = fp.read(chunk_size) until no data, one md5 per chunk
RECURSIVE read_md5s(_, _)
read_md5s(rest, chunk_size) ==
    IF Len(rest) = 0 THEN <<>>
    ELSE LET data == SubSeq(rest, 1, Min(chunk_size, Len(rest)))
         IN  <<md5(data)>> \o read_md5s(SubSeq(rest, Len(data) + 1, Len(rest)), chunk_size)

computed_checksum_hexjoin(md5s) ==
    IF Len(md5s) < 1 THEN hexdigest(md5(<<>>))
    ELSE IF Len(md5s) = 1 THEN hexdigest(md5s[1])
    ELSE with_suffix(hexdigest(md5_of_hexdigests(md5s)), Len(md5s))

\* computed_checksum of calculate_s3_md5sum, from the list md5s
computed_checksum(md5s) ==
    IF Len(md5s) < 1 THEN hexdigest(md5(<<>>))
    ELSE IF Len(md5s) = 1 THEN hexdigest(md5s[1])
    ELSE with_suffix(hexdigest(md5_of_digests(md5s)), Len(md5s))

\* calculate_md5sum(path) of a readable local file: one md5 updated with
\* every block read, i.e. the digest of the whole content
calculate_md5sum(bytes) == hexdigest(md5(bytes))

\* calculate_s3_md5sum of process.py and process_directory.py for a local
\* file (the value stored in value['s3_md5sum'])
calculate_s3_md5sum(bytes, chunk_size) == computed_checksum(read_md5s(bytes, chunk_size))

calculate_s3_md5sum_localdir_nothreshold(bytes, chunk_size) ==
    computed_checksum(read_md5s(bytes, chunk_size))

\* calculate_s3_md5sum of process_localdir_to_aws.py: below the boto
\* multipart threshold the tag is the plain md5sum of the file
calculate_s3_md5sum_localdir(bytes, chunk_size) ==
    IF Len(bytes) < boto_multipart_threshold
    THEN calculate_md5sum(bytes)
    ELSE computed_checksum(read_md5s(bytes, chunk_size))

\* handle_gcloud_download_to_s3_transfer: the tag of the staged download
download_s3_md5sum(bytes, chunk_size) == computed_checksum(read_md5s(bytes, chunk_size))

\* ------------------------------------------------------------------------
\* State
\* ------------------------------------------------------------------------
VARIABLES
    dg,             \* the checksum call under test: [variant, bytes, chunk_size, pc, s3_md5sum, md5sum]
    variant,        \* which script runs: "process", "process_directory", "process_localdir_to_aws"
    args,           \* parsed arguments: [aws, gs, test, resume, threads, chunk_size, bucket, directory]
    fs,             \* readable local files: path -> content
    tsv,            \* the lines of the manifest file given as --tsv
    od,             \* the OrderedDict of rows, in insertion order
    out_file,       \* the receipt manifest file object: [lines, pos, open]
    pc,             \* per thread (0 is the main thread): position in the code
    wrow,           \* per thread: index in od of the row it works on
    wk,             \* per thread: number of od rows update_manifest_file has written
    ret,            \* per thread: where update_manifest_file returns to
    queue,          \* the executor's pending work items (od indices)
    held,           \* the threading.Lock objects currently held
    s3,             \* provider-A objects
    gcs,            \* provider-B objects
    gs_crc32c,      \* the global dict gs_crc32c: input_file_path -> unsigned crc32c text
    futures,        \* od indices whose work item of the current pool raised an exception
    uploads,        \* the global lists [regular, multipart] of process_localdir_to_aws.py (od indices)
    tmpfiles,       \* the temporary files of tempfile.mkstemp() on disk (od index of the row staged)
    faults,         \* input paths whose transfer the provider rejects (ClientError / BadRequest)
    corrupt,        \* input paths whose transfer stores other bytes than the source holds
    buckets,        \* the target buckets that cannot be written: name -> what is wrong with it
    aws_buckets,    \* the global dict aws_buckets: name -> 1 (writeable) or 0
    gs_buckets,     \* the global dict gs_buckets: name -> 1 (writeable) or 0
    run,            \* number of the current invocation of the script
    status,         \* how the current invocation ended ("" while running)
    hist            \* history of the session: what earlier invocations left behind

dvars == <<dg>>
rvars == <<variant, args, fs, tsv, od, out_file, pc, wrow, wk, ret, queue, held, s3, gcs, gs_crc32c, uploads, tmpfiles, futures, faults, corrupt, buckets, aws_buckets, gs_buckets, run, status, hist>>
\* the variables an invocation never changes
evars == <<dg, variant, args, fs, tsv, faults, corrupt, run, buckets>>
\* the variables nothing after read_and_verify_file changes
cvars == <<evars, aws_buckets, gs_buckets>>
vars == <<dg, variant, args, fs, tsv, od, out_file, pc, wrow, wk, ret, queue, held, s3, gcs, gs_crc32c, uploads, tmpfiles, futures, faults, corrupt, buckets, aws_buckets, gs_buckets, run, status, hist>>

\* ------------------------------------------------------------------------
\* The checksum functions applied to bounded inputs
\* ------------------------------------------------------------------------
Blocks == {0, 1}
Files == UNION {[1..n -> Blocks] : n \in 0..MaxFileLen}
DigestVariants == {"process", "process_directory", "process_localdir_to_aws", "download"}

\* out_file before get_receipt_manifest_file_pointer has opened the receipt
\* manifest
no_file == [lines |-> <<>>, pos |-> 0, open |-> FALSE, created |-> FALSE]

\* the run variables while only a checksum function is exercised
RunIdle ==
    /\ variant = "none"
    /\ args = [aws |-> FALSE, gs |-> FALSE, test |-> FALSE, resume |-> FALSE, threads |-> 0,
               chunk_size |-> 0, bucket |-> <<>>, directory |-> <<>>]
    /\ fs = <<>>
    /\ tsv = <<>>
    /\ od = <<>>
    /\ out_file = no_file
    /\ pc = <<>>
    /\ wrow = <<>>
    /\ wk = <<>>
    /\ ret = <<>>
    /\ queue = <<>>
    /\ held = {}
    /\ s3 = {}
    /\ gcs = {}
    /\ gs_crc32c = <<>>
    /\ uploads = <<>>
    /\ tmpfiles = {}
    /\ futures = {}
    /\ faults = {}
    /\ corrupt = {}
    /\ buckets = <<>>
    /\ aws_buckets = <<>>
    /\ gs_buckets = <<>>
    /\ run = 0
    /\ status = ""
    /\ hist = <<>>

InitDigest ==
    /\ dg \in [variant : DigestVariants, bytes : Files, chunk_size : 1..MaxChunkSize,
               pc : {"call"}, s3_md5sum : {<<>>}, md5sum : {<<>>}]
    /\ RunIdle

\* process.py calculate_s3_md5sum on a local file
DigestProcess ==
    /\ dg.pc = "call" /\ dg.variant = "process"
    /\ dg' = [dg EXCEPT !.s3_md5sum = calculate_s3_md5sum(dg.bytes, dg.chunk_size),
                        !.pc = "returned"]
    /\ UNCHANGED rvars

\* process_directory.py calculate_s3_md5sum on a local file
DigestProcessDirectory ==
    /\ dg.pc = "call" /\ dg.variant = "process_directory"
    /\ dg' = [dg EXCEPT !.s3_md5sum = calculate_s3_md5sum(dg.bytes, dg.chunk_size),
                        !.pc = "returned"]
    /\ UNCHANGED rvars

\* process_localdir_to_aws.py calculate_s3_md5sum (file_size is the size
\* process_row stored for the file)
DigestLocaldir ==
    /\ dg.pc = "call" /\ dg.variant = "process_localdir_to_aws"
    /\ dg' = [dg EXCEPT !.s3_md5sum = calculate_s3_md5sum_localdir(dg.bytes, dg.chunk_size),
                        !.md5sum = IF Len(dg.bytes) < boto_multipart_threshold
                                   THEN calculate_md5sum(dg.bytes) ELSE <<>>,
                        !.pc = "returned"]
    /\ UNCHANGED rvars

\* process_directory.py handle_gcloud_download_to_s3_transfer on the staged file
DigestDownload ==
    /\ dg.pc = "call" /\ dg.variant = "download"
    /\ dg' = [dg EXCEPT !.s3_md5sum = download_s3_md5sum(dg.bytes, dg.chunk_size),
                        !.md5sum = calculate_md5sum(dg.bytes),
                        !.pc = "returned"]
    /\ UNCHANGED rvars

NextDigest == DigestProcess \/ DigestProcessDirectory \/ DigestLocaldir \/ DigestDownload

SpecDigest == InitDigest /\ [][NextDigest]_vars

\* ---- properties of the checksum functions ----
\* ceil(S / C)
CeilDiv(S, C) == (S + C - 1) \div C

\* the k-th chunk of a file cut at multiples of the chunk size
ChunkAt(bytes, C, k) == SubSeq(bytes, (k - 1) * C + 1, Min(k * C, Len(bytes)))

\* the tag the multipart scheme prescribes
MultipartTag(bytes, C) ==
    LET N == CeilDiv(Len(bytes), C) IN
    IF N = 0 THEN <<"hex", 0, << <<>> >> >>
    ELSE IF N = 1 THEN <<"hex", 0, <<ChunkAt(bytes, C, 1)>> >>
    ELSE <<"hex", 1, [k \in 1..N |-> ChunkAt(bytes, C, k)], "-", N>>

\* C4: calculate_s3_md5sum (process.py, process_directory.py and the staged
\* download) yields the hash of the empty input for zero chunks, the chunk's
\* hex digest without suffix for one chunk, and for N > 1 chunks the hex
\* digest of the N concatenated raw chunk digests followed by "-N".
C4_MultipartTag ==
    (dg.pc = "returned" /\ dg.variant \in {"process", "process_directory", "download"})
        => dg.s3_md5sum = MultipartTag(dg.bytes, dg.chunk_size)

C4_Witness ==
    /\ dg.pc = "returned" /\ dg.variant = "process"
    /\ Len(dg.bytes) = 5 /\ dg.chunk_size = 2
    /\ dg.s3_md5sum[5] = 3

\* the tag ends in "-n"
EndsInSuffix(tag, n) == Len(tag) = 5 /\ tag[4] = "-" /\ tag[5] = n /\ Len(tag[3]) = n

\* the tag is the plain hex digest of the file
PlainDigest(tag, bytes) == tag = <<"hex", 0, <<bytes>> >>

\* C5 as stated: in every variant a file of size S > C has a tag ending in
\* "-ceil(S/C)" and a file of size 0 < S <= C has the plain hex digest.
C5_Original ==
    dg.pc = "returned" =>
        LET S == Len(dg.bytes)
            C == dg.chunk_size
        IN  /\ S > C => EndsInSuffix(dg.s3_md5sum, CeilDiv(S, C))
            /\ (0 < S /\ S <= C) => PlainDigest(dg.s3_md5sum, dg.bytes)

\* C5 amended: the chunk count is ceil(S/C) in process.py and
\* process_directory.py; in process_localdir_to_aws.py only for files of at
\* least boto_multipart_threshold bytes, and below that threshold the tag is
\* the plain hex digest whatever the chunk size.
C5_ThresholdGated ==
    dg.pc = "returned" =>
        LET S == Len(dg.bytes)
            C == dg.chunk_size
            chunked == dg.variant # "process_localdir_to_aws" \/ S >= boto_multipart_threshold
        IN  /\ (chunked /\ S > C) => EndsInSuffix(dg.s3_md5sum, CeilDiv(S, C))
            /\ (chunked /\ 0 < S /\ S <= C) => PlainDigest(dg.s3_md5sum, dg.bytes)
            /\ ~chunked => PlainDigest(dg.s3_md5sum, dg.bytes)

C5_Witness ==
    /\ dg.pc = "returned" /\ dg.variant = "process_localdir_to_aws"
    /\ Len(dg.bytes) = 3 /\ dg.chunk_size = 2
    /\ Len(dg.s3_md5sum) = 3

\* ------------------------------------------------------------------------
\* Manifest rows, paths and the receipt manifest file
\* ------------------------------------------------------------------------
\* rows of the checksum/transfer runs
NumRows == 2
\* worker threads of the checksum pool (--threads)
NumThreads == 2
\* invocations of the script in one session (a first run, then --resume runs)
MaxRuns == 2

FieldNames == {"study_id", "consent_group", "input_file_path", "file_name", "file_size",
               "guid", "ga4gh_drs_uri", "md5sum", "gs_crc32c", "gs_path",
               "gs_modified_date", "gs_file_size", "s3_md5sum", "s3_path",
               "s3_modified_date", "s3_file_size"}

\* the columns of an input manifest
InputFields == {"study_id", "consent_group", "input_file_path"}

\* value.keys() written as a csv line: every field holds its own name
header_row == [f \in FieldNames |-> <<f>>]

\* a row of the input manifest: only the source columns are filled
input_row(study, consent, path) ==
    [f \in FieldNames |-> IF f = "study_id" THEN <<study>>
                          ELSE IF f = "consent_group" THEN <<consent>>
                          ELSE IF f = "input_file_path" THEN path
                          ELSE <<>>]

startswith(s, scheme) == Len(s) > 0 /\ s[1] = scheme
basename(path) == path[Len(path)]

\* str(v) as csv.writer applies it: an int becomes its decimal text
str_field(v) == IF Len(v) = 2 /\ v[1] = "int" THEN <<"dec", v[2]>> ELSE v

\* tsv_writer.writerow(value.values())
csv_line(value) == [f \in FieldNames |-> str_field(value[f])]

\* f.write(line) at the file position
file_write(f, line) ==
    [f EXCEPT !.lines = IF f.pos < Len(f.lines)
                        THEN [f.lines EXCEPT ![f.pos + 1] = line]
                        ELSE Append(f.lines, line),
              !.pos = f.pos + 1]

\* the file one call of update_manifest_file leaves when nothing interleaves
snapshot(rows) ==
    IF Len(rows) = 0 THEN <<>>
    ELSE <<header_row>> \o [i \in 1..Len(rows) |-> csv_line(rows[i])]

\* get_bucket_name(row) of process.py: study_id + '--' + consent_group
get_bucket_name(row) == row.study_id \o row.consent_group

\* ------------------------------------------------------------------------
\* Provider A
\* ------------------------------------------------------------------------
\* aws_key_exists(bucket_name, key)
aws_key_exists(bucket_name, key) == \E o \in s3 : o.bucket = bucket_name /\ o.key = key

\* aws_client.head_object(Bucket, Key)
head_object(bucket_name, key) == CHOOSE o \in s3 : o.bucket = bucket_name /\ o.key = key

\* the entity tags provider A may report for an object stored with the
\* given part size: the plain digest or the multipart tag
ETags(body, chunk_size) == {hexdigest(md5(body)), calculate_s3_md5sum(body, chunk_size)}

\* calculate_md5sum(input_file_path) of process.py: a cloud path is never
\* downloaded into the temporary file, so the empty file is hashed
calculate_md5sum_path(path) ==
    IF startswith(path, "gs://") \/ startswith(path, "s3://")
    THEN hexdigest(md5(<<>>))
    ELSE IF path \in DOMAIN fs THEN calculate_md5sum(fs[path]) ELSE <<>>

\* add_aws_manifest_metadata(fields, response, path) of process.py
add_aws_manifest_metadata(fields, response, path) ==
    LET f1 == IF ~has_dash(response.etag) THEN [fields EXCEPT !.md5sum = response.etag]
              ELSE fields
        f2 == [f1 EXCEPT !.s3_path = path,
                         !.s3_modified_date = response.mtime,
                         !.s3_file_size = <<"int", Len(response.body)>>]
    IN  IF Len(f2.md5sum) = 0
        THEN [f2 EXCEPT !.md5sum = calculate_md5sum_path(f2.input_file_path)]
        ELSE f2

\* ------------------------------------------------------------------------
\* update_manifest_file(f, od), statement by statement, run by thread t
\* ------------------------------------------------------------------------
Running == status = ""
Workers == 1..args.threads

\* threading.Lock() evaluated inside update_manifest_file: every call
\* builds a new lock object, here named after the calling thread
manifest_lock(t) == <<"Lock", t>>

\* the call update_manifest_file(out_file, od) made by thread t, returning to r
call_update_manifest_file(t, r) ==
    /\ pc' = [pc EXCEPT ![t] = "lock"]
    /\ ret' = [ret EXCEPT ![t] = r]

\* with threading.Lock(): acquire
Lock(t) ==
    /\ Running /\ pc[t] = "lock"
    /\ manifest_lock(t) \notin held
    /\ held' = held \cup {manifest_lock(t)}
    /\ pc' = [pc EXCEPT ![t] = "seek"]
    /\ UNCHANGED <<cvars, futures, uploads, tmpfiles, od, out_file, wrow, wk, ret, queue, s3, gcs, gs_crc32c, status, hist>>

\* f.seek(0)
Seek(t) ==
    /\ Running /\ pc[t] = "seek"
    /\ out_file' = [out_file EXCEPT !.pos = 0]
    /\ pc' = [pc EXCEPT ![t] = "truncate"]
    /\ UNCHANGED <<cvars, futures, uploads, tmpfiles, od, wrow, wk, ret, queue, held, s3, gcs, gs_crc32c, status, hist>>

\* f.truncate(): cut the file at the current position
Truncate(t) ==
    /\ Running /\ pc[t] = "truncate"
    /\ out_file' = [out_file EXCEPT !.lines = SubSeq(out_file.lines, 1, out_file.pos)]
    /\ wk' = [wk EXCEPT ![t] = 0]
    /\ pc' = [pc EXCEPT ![t] = IF Len(od) = 0 THEN "unlock" ELSE "header"]
    /\ hist' = [hist EXCEPT !.persist_begun = TRUE]
    /\ UNCHANGED <<cvars, futures, uploads, tmpfiles, od, wrow, ret, queue, held, s3, gcs, gs_crc32c, status>>

\* tsv_writer.writerow(value.keys()) before the first row
WriteHeader(t) ==
    /\ Running /\ pc[t] = "header"
    /\ out_file' = file_write(out_file, header_row)
    /\ pc' = [pc EXCEPT ![t] = "row"]
    /\ UNCHANGED <<cvars, futures, uploads, tmpfiles, od, wrow, wk, ret, queue, held, s3, gcs, gs_crc32c, status, hist>>

\* tsv_writer.writerow(value.values()) for the next row of od
WriteRow(t) ==
    /\ Running /\ pc[t] = "row"
    /\ out_file' = file_write(out_file, csv_line(od[wk[t] + 1]))
    /\ wk' = [wk EXCEPT ![t] = wk[t] + 1]
    /\ pc' = [pc EXCEPT ![t] = IF wk[t] + 1 >= Len(od) THEN "unlock" ELSE "row"]
    /\ UNCHANGED <<cvars, futures, uploads, tmpfiles, od, wrow, ret, queue, held, s3, gcs, gs_crc32c, status, hist>>

\* leaving the with block releases the lock; the call returns
Unlock(t) ==
    /\ Running /\ pc[t] = "unlock"
    /\ held' = held \ {manifest_lock(t)}
    /\ pc' = [pc EXCEPT ![t] = ret[t]]
    /\ UNCHANGED <<cvars, futures, uploads, tmpfiles, od, out_file, wrow, wk, ret, queue, s3, gcs, gs_crc32c, status, hist>>

\* the threads inside the seek/truncate/write section
InPersist == {t \in DOMAIN pc : pc[t] \in {"seek", "truncate", "header", "row", "unlock"}}

\* ------------------------------------------------------------------------
\* process.py: read_and_verify_file
\* ------------------------------------------------------------------------
\* the fields process_row blanks when not resuming
ProcessBlankFields == {"md5sum", "gs_crc32c", "gs_path", "gs_modified_date", "gs_file_size",
                       "s3_md5sum", "s3_path", "s3_modified_date", "s3_file_size"}

blank(row, names) == [f \in FieldNames |-> IF f \in names THEN <<>> ELSE row[f]]

\* od[key] = row: a known key keeps its place, a new key goes last
\* (keys holds the key of every row of d, key is the key of row)
od_put(d, keys, key, row) ==
    IF \E i \in 1..Len(d) : keys[i] = key
    THEN [i \in 1..Len(d) |-> IF keys[i] = key THEN row ELSE d[i]]
    ELSE Append(d, row)

\* study_id + '_' + local_file
process_key(row) == row.study_id \o <<"_">> \o row.input_file_path
process_keys(d) == [i \in 1..Len(d) |-> process_key(d[i])]

\* the rows csv.DictReader yields; reading a column fails (KeyError) when
\* the first line of the file is not the line of column names
reader_rows == IF Len(tsv) <= 1 THEN <<>> ELSE SubSeq(tsv, 2, Len(tsv))
reader_keyerror == Len(tsv) > 1 /\ tsv[1] # header_row

\* crc32c of a content as provider B reports it (base64), and the unsigned
\* integer text struct.unpack('>I', base64.b64decode(...)) gives for it
crc32c_b64(body) == <<"crc32c-b64", body>>
crc32c_uint(b64) == <<"crc32c-uint", b64[2]>>

gs_blob(path) == {o \in gcs : o.bucket = path[2] /\ o.name = SubSeq(path, 3, Len(path))}
s3_obj(path) == {o \in s3 : o.bucket = path[2] /\ o.key = SubSeq(path, 3, Len(path))}

verify_gs_file_uncached(acc, value) ==
    IF gs_blob(value.input_file_path) = {} THEN [acc EXCEPT !.ok = FALSE]
    ELSE LET blob == CHOOSE o \in gs_blob(value.input_file_path) : TRUE
             v1 == [value EXCEPT !.gs_crc32c = crc32c_b64(blob.body)]
             v2 == IF blob.has_md5 THEN [v1 EXCEPT !.md5sum = b64digest(md5(blob.body))] ELSE v1
         IN  [acc EXCEPT !.od = od_put(acc.od, process_keys(acc.od), process_key(v2), v2)]

\* verify_gs_file(value, local_file, test_mode) of process.py, on the
\* accumulator [od, crc, ok]
verify_gs_file(acc, value) ==
    IF gs_blob(value.input_file_path) = {} THEN [acc EXCEPT !.ok = FALSE]
    ELSE LET blob == CHOOSE o \in gs_blob(value.input_file_path) : TRUE
             v1 == [value EXCEPT !.gs_crc32c = crc32c_b64(blob.body)]
             v2 == IF blob.has_md5 THEN [v1 EXCEPT !.md5sum = b64digest(md5(blob.body))] ELSE v1
         IN  [acc EXCEPT !.od = od_put(acc.od, process_keys(acc.od), process_key(v2), v2),
                         !.crc = (value.input_file_path :> crc32c_uint(v1.gs_crc32c)) @@ acc.crc]

\* verify_s3_file(value, local_file, test_mode) of process.py
verify_s3_file(acc, value) ==
    IF s3_obj(value.input_file_path) = {} THEN [acc EXCEPT !.ok = FALSE]
    ELSE LET o == CHOOSE o \in s3_obj(value.input_file_path) : TRUE
             v1 == [value EXCEPT !.s3_md5sum = o.etag]
             v2 == IF ~has_dash(o.etag) THEN [v1 EXCEPT !.md5sum = o.etag] ELSE v1
         IN  [acc EXCEPT !.od = od_put(acc.od, process_keys(acc.od), process_key(v2), v2)]

\* process_row(od, row, test_mode, resume_mode) of process.py
process_row(acc, row0) ==
    LET row == IF ~args.resume THEN blank(row0, ProcessBlankFields) ELSE row0
        a1 == [acc EXCEPT !.od = od_put(acc.od, process_keys(acc.od), process_key(row), row)]
    IN  IF startswith(row.input_file_path, "gs://") THEN verify_gs_file(a1, row)
        ELSE IF startswith(row.input_file_path, "s3://") THEN verify_s3_file(a1, row)
        ELSE IF row.input_file_path \in DOMAIN fs THEN a1
        ELSE [a1 EXCEPT !.ok = FALSE]

\* for row in reader: process_row(...)
RECURSIVE read_rows(_, _)
read_rows(rows, acc) ==
    IF Len(rows) = 0 THEN acc ELSE read_rows(Tail(rows), process_row(acc, Head(rows)))

\* what the provider answers about a bucket
bucket_state(bucket_name) ==
    IF bucket_name \in DOMAIN buckets THEN buckets[bucket_name] ELSE "allowed"

\* one more request to the provider about the bucket
probe(probes, provider, bucket_name) ==
    LET k == <<provider, bucket_name>> IN
    (k :> (IF k \in DOMAIN probes THEN probes[k] + 1 ELSE 1)) @@ probes

\* aws_bucket_writeable(bucket_name, iam, arn, aws_buckets, test_mode) of
\* process.py on the accumulator [memo, probes, ok]: a bucket that is not
\* among s3.buckets.all() returns False without an entry in aws_buckets.
\* Only NoSuchBucket is caught: when iam.simulate_principal_policy cannot
\* reach the service, its exception leaves the function and its caller
aws_bucket_writeable(acc, bucket_name) ==
    IF acc.raised THEN acc
    ELSE IF bucket_name \in DOMAIN acc.memo
    THEN [acc EXCEPT !.ok = acc.ok /\ acc.memo[bucket_name] = 1]
    ELSE LET asked == [acc EXCEPT !.probes = probe(acc.probes, "aws", bucket_name)] IN
         IF bucket_state(bucket_name) = "missing" THEN [asked EXCEPT !.ok = FALSE]
         ELSE IF bucket_state(bucket_name) = "unreachable"
         THEN [asked EXCEPT !.raised = TRUE, !.ok = FALSE]
         ELSE IF bucket_state(bucket_name) = "allowed"
         THEN [asked EXCEPT !.memo = (bucket_name :> 1) @@ acc.memo]
         ELSE [asked EXCEPT !.memo = (bucket_name :> 0) @@ acc.memo, !.ok = FALSE]

\* gs_bucket_writeable(bucket_name, storage_client, gs_buckets, test_mode):
\* get_bucket raises for a missing bucket, test_iam_permissions raises
\* when the service cannot be reached (except Exception), a bucket without
\* storage.objects.create is not writeable; all are stored as 0. When
\* get_bucket succeeds and bucket.exists() then answers False (the bucket
\* was deleted in between), the function ends without a return statement:
\* nothing is stored and the caller's test (... == False) does not hold
gs_bucket_writeable_blind(acc, bucket_name) ==
    IF bucket_name \in DOMAIN acc.memo
    THEN acc
    ELSE [acc EXCEPT !.probes = probe(acc.probes, "gs", bucket_name),
                     !.memo = (bucket_name :> 1) @@ acc.memo]

gs_bucket_writeable(acc, bucket_name) ==
    IF bucket_name \in DOMAIN acc.memo
    THEN [acc EXCEPT !.ok = acc.ok /\ acc.memo[bucket_name] = 1]
    ELSE LET asked == [acc EXCEPT !.probes = probe(acc.probes, "gs", bucket_name)] IN
         IF bucket_state(bucket_name) = "allowed"
         THEN [asked EXCEPT !.memo = (bucket_name :> 1) @@ acc.memo]
         ELSE IF bucket_state(bucket_name) = "vanished"
         THEN asked
         ELSE [asked EXCEPT !.memo = (bucket_name :> 0) @@ acc.memo, !.ok = FALSE]

\* verify_aws_buckets(od, test_mode): for key, value in od.items()
RECURSIVE verify_aws_buckets(_, _)
verify_aws_buckets(rows, acc) ==
    IF Len(rows) = 0 THEN acc
    ELSE verify_aws_buckets(Tail(rows), aws_bucket_writeable(acc, get_bucket_name(Head(rows))))

\* verify_gs_buckets(od, test_mode)
RECURSIVE verify_gs_buckets(_, _)
verify_gs_buckets(rows, acc) ==
    IF Len(rows) = 0 THEN acc
    ELSE verify_gs_buckets(Tail(rows), gs_bucket_writeable(acc, get_bucket_name(Head(rows))))

\* main() of process.py up to the first phase: parse_args, which exits
\* when neither --gs nor --aws is given, read_and_verify_file, which exits
\* when a source is unreadable or a bucket not writeable and exits in test
\* mode, and get_receipt_manifest_file_pointer
ReadAndVerify ==
    /\ Running /\ pc[0] = "main" /\ variant = "process"
    /\ IF ~args.gs /\ ~args.aws
       THEN /\ status' = "exit_args"
            /\ UNCHANGED <<od, gs_crc32c, out_file, pc, hist, aws_buckets, gs_buckets>>
       ELSE IF reader_keyerror
       THEN /\ status' = "crashed"
            /\ UNCHANGED <<od, gs_crc32c, out_file, pc, hist, aws_buckets, gs_buckets>>
       ELSE LET acc == read_rows(reader_rows, [od |-> <<>>, crc |-> <<>>, ok |-> TRUE])
                gsb0 == [memo |-> gs_buckets, probes |-> hist.probes, ok |-> TRUE,
                         raised |-> FALSE]
                gsb == IF args.gs THEN verify_gs_buckets(acc.od, gsb0) ELSE gsb0
                awb0 == [memo |-> aws_buckets, probes |-> gsb.probes, ok |-> TRUE,
                         raised |-> FALSE]
                awb == IF args.aws THEN verify_aws_buckets(acc.od, awb0) ELSE awb0
            IN
            /\ od' = acc.od
            /\ gs_crc32c' = acc.crc
            /\ gs_buckets' = gsb.memo
            /\ aws_buckets' = awb.memo
            /\ hist' = [hist EXCEPT !.loaded = acc.od, !.probes = awb.probes]
            /\ IF awb.raised
               THEN /\ status' = "crashed"
                    /\ UNCHANGED <<out_file, pc>>
               ELSE IF ~acc.ok \/ ~gsb.ok \/ ~awb.ok
               THEN /\ status' = "exit_validation"
                    /\ UNCHANGED <<out_file, pc>>
               ELSE IF args.test
               THEN /\ status' = "exit_test"
                    /\ UNCHANGED <<out_file, pc>>
               ELSE /\ out_file' = [lines |-> <<>>, pos |-> 0, open |-> TRUE, created |-> TRUE]
                    /\ pc' = [pc EXCEPT ![0] = IF args.gs THEN "gs_checksums" ELSE "aws_checksums"]
                    /\ UNCHANGED status
    /\ UNCHANGED <<evars, futures, uploads, tmpfiles, wrow, wk, ret, queue, held, s3, gcs>>

\* ------------------------------------------------------------------------
\* process.py: the provider-A checksum phase (calculate_aws_checksums)
\* ------------------------------------------------------------------------
already_calculated_never(value, field) == FALSE

\* resume_mode and field in value.keys() and len(value[field]) > 0
already_calculated(value, field) == args.resume /\ Len(value[field]) > 0

\* executor.submit(calculate_s3_md5sum, ...) for every row of od
SubmitAwsChecksums ==
    /\ Running /\ pc[0] = "aws_checksums"
    /\ queue' = [i \in 1..Len(od) |-> i]
    /\ pc' = [pc EXCEPT ![0] = "aws_wait"]
    /\ UNCHANGED <<cvars, futures, uploads, tmpfiles, od, out_file, wrow, wk, ret, held, s3, gcs, gs_crc32c, status, hist>>

\* the waits of the main thread for the two upload pools of
\* process_localdir_to_aws.py
UploadWaits == {"up_regular_wait", "up_multipart_wait"}

\* the threads of the pool the main thread waits for:
\* ThreadPoolExecutor(1) for the multipart uploads, ThreadPoolExecutor(threads)
\* for every other pool
PoolThreads == IF pc[0] = "up_multipart_wait" THEN {1} ELSE Workers

\* a free pool thread takes the next work item
TakeTask(t) ==
    /\ Running /\ pc[t] = "idle" /\ Len(queue) > 0
    /\ t \in PoolThreads
    /\ wrow' = [wrow EXCEPT ![t] = Head(queue)]
    /\ queue' = Tail(queue)
    /\ pc' = [pc EXCEPT ![t] = IF pc[0] = "aws_wait" THEN "calc_s3"
                               ELSE IF pc[0] \in UploadWaits THEN "upload"
                               ELSE "calc_gs"]
    /\ UNCHANGED <<cvars, futures, uploads, tmpfiles, od, out_file, wk, ret, held, s3, gcs, gs_crc32c, status, hist>>

\* calculate_s3_md5sum(value['input_file_path'], value, chunk_size, od,
\* out_file, resume_mode) up to its call of update_manifest_file
CalcS3(t) ==
    /\ Running /\ pc[t] = "calc_s3" /\ variant = "process"
    /\ LET value == od[wrow[t]]
           path == value.input_file_path
       IN  IF \/ startswith(path, "gs://") \/ startswith(path, "s3://")
              \/ already_calculated(value, "s3_md5sum")
           THEN /\ pc' = [pc EXCEPT ![t] = "idle"]
                /\ UNCHANGED <<od, ret, hist>>
           ELSE /\ od' = [od EXCEPT ![wrow[t]].s3_md5sum =
                                        calculate_s3_md5sum(fs[path], args.chunk_size)]
                /\ hist' = [hist EXCEPT !.computed = probe(@, "s3", wrow[t])]
                /\ call_update_manifest_file(t, "idle")
    /\ UNCHANGED <<cvars, futures, uploads, tmpfiles, out_file, wrow, wk, queue, held, s3, gcs, gs_crc32c, status>>

\* leaving the with ThreadPoolExecutor block: every work item has finished.
\* future.result() re-raises what a work item raised; only ValueError is
\* caught, anything else leaves the block once the pool has shut down and
\* ends the script
JoinAwsChecksums ==
    /\ Running /\ pc[0] = "aws_wait"
    /\ Len(queue) = 0 /\ \A t \in Workers : pc[t] = "idle"
    /\ IF futures # {}
       THEN /\ status' = "crashed"
            /\ UNCHANGED <<pc, wrow>>
       ELSE /\ pc' = [pc EXCEPT ![0] = IF variant = "process_localdir_to_aws" THEN "categorize"
                                        ELSE "up_aws"]
            /\ wrow' = [wrow EXCEPT ![0] = 1]
            /\ UNCHANGED status
    /\ UNCHANGED <<cvars, futures, uploads, tmpfiles, od, out_file, wk, ret, queue, held, s3, gcs, gs_crc32c, hist>>

\* ------------------------------------------------------------------------
\* process.py: upload_to_aws, one row of the loop at a time
\* ------------------------------------------------------------------------
issue(op, i) == [hist EXCEPT !.calls = @ \cup {<<op, i>>}]

\* the content the row's transfer sends: the local file, the object copied
\* inside provider A, or the staged download from provider B
source_body(path) ==
    IF startswith(path, "gs://") THEN (CHOOSE o \in gs_blob(path) : TRUE).body
    ELSE IF startswith(path, "s3://") THEN (CHOOSE o \in s3_obj(path) : TRUE).body
    ELSE fs[path]

\* the bytes of the other kind a transfer that went wrong stores
corrupted(body) == [k \in 1..Len(body) |-> IF k = 1 THEN (IF body[1] = 0 THEN 1 ELSE 0)
                                           ELSE body[k]]

\* the content the destination holds after the row's transfer
stored_body(path) ==
    IF path \in corrupt THEN corrupted(source_body(path)) ELSE source_body(path)

remove_staged_never(files, i) == files

\* finally: if (tmpfilepath): os.remove(tmpfilepath)
remove_staged(files, i) == files \ {i}

resume_skip_aws_never(value) == FALSE

\* resume_mode and 's3_path' in value.keys() and value['s3_path'].startswith('s3://')
resume_skip_aws(value) == args.resume /\ startswith(value.s3_path, "s3://")

\* the head of the loop body: resume-skip, and for a provider-B source the
\* download to a temporary file and its checksum. A gsutil cp that fails
\* makes subprocess.check_call raise CalledProcessError, which is no
\* ClientError: the finally clause runs and the script ends
UploadAwsBegin ==
    /\ Running /\ pc[0] = "up_aws" /\ variant = "process"
    /\ LET i == wrow[0] IN
       IF i > Len(od)
       THEN /\ pc' = [pc EXCEPT ![0] = "final"]
            /\ UNCHANGED <<od, wrow, ret, hist, tmpfiles, status>>
       ELSE IF resume_skip_aws(od[i])
       THEN /\ wrow' = [wrow EXCEPT ![0] = i + 1]
            /\ UNCHANGED <<od, pc, ret, hist, tmpfiles, status>>
       ELSE IF startswith(od[i].input_file_path, "gs://")
       THEN /\ hist' = issue("download", i)
            /\ \/ /\ od[i].input_file_path \in faults
                  /\ status' = "crashed"
                  /\ tmpfiles' = remove_staged(tmpfiles \cup {i}, i)
                  /\ UNCHANGED <<od, pc, ret>>
               \/ /\ tmpfiles' = tmpfiles \cup {i}
                  /\ IF args.resume /\ Len(od[i].s3_md5sum) > 0
                     THEN /\ pc' = [pc EXCEPT ![0] = "up_aws_exists"]
                          /\ UNCHANGED <<od, ret>>
                     ELSE /\ od' = [od EXCEPT ![i].s3_md5sum =
                                       calculate_s3_md5sum(source_body(od[i].input_file_path),
                                                           args.chunk_size)]
                          /\ call_update_manifest_file(0, "up_aws_exists")
                  /\ UNCHANGED status
            /\ UNCHANGED wrow
       ELSE /\ pc' = [pc EXCEPT ![0] = "up_aws_exists"]
            /\ UNCHANGED <<od, wrow, ret, hist, tmpfiles, status>>
    /\ UNCHANGED <<cvars, futures, uploads, out_file, wk, queue, held, s3, gcs, gs_crc32c>>

s3_file_of_fullpath(value) == <<value.s3_md5sum, value.input_file_path>>

\* s3_file = value['s3_md5sum'] + '/' + basename(value['input_file_path'])
s3_file_of(value) == <<value.s3_md5sum, basename(value.input_file_path)>>
s3_url(bucket_name, key) == <<"s3://", bucket_name>> \o key

\* the way upload_to_aws sends a row whose key is absent: handle_aws_copy
\* for an s3:// source, handle_aws_file_upload of the temporary file for a
\* gs:// source, handle_aws_file_upload of the file itself otherwise
aws_method(value) ==
    IF startswith(value.input_file_path, "s3://") THEN "copy"
    ELSE IF startswith(value.input_file_path, "gs://") THEN "staged"
    ELSE "upload"

\* the existence check and, when the key is absent, the copy or upload.
\* A request the provider rejects raises ClientError, which the loop body
\* catches; a rejected upload_file raises boto3's S3UploadFailedError,
\* which is no ClientError and ends the script
UploadAwsTransfer ==
    /\ Running /\ pc[0] = "up_aws_exists"
    /\ LET i == wrow[0]
           value == od[i]
           bucket_name == get_bucket_name(value)
           s3_file == s3_file_of(value)
       IN  IF aws_key_exists(bucket_name, s3_file)
           THEN /\ od' = [od EXCEPT ![i] = add_aws_manifest_metadata(value,
                              head_object(bucket_name, s3_file), s3_url(bucket_name, s3_file))]
                /\ hist' = [hist EXCEPT !.calls = @ \cup {<<"exists", i>>, <<"head", i>>}]
                /\ wrow' = [wrow EXCEPT ![0] = i + 1]
                /\ call_update_manifest_file(0, "up_aws")
                /\ UNCHANGED <<s3, status>>
           ELSE IF value.input_file_path \in faults
           THEN /\ hist' = [hist EXCEPT !.calls = @ \cup {<<"exists", i>>, <<"transfer", i>>},
                                        !.methods = @ \cup {<<aws_method(value), i>>}]
                /\ \/ /\ wrow' = [wrow EXCEPT ![0] = i + 1]
                      /\ call_update_manifest_file(0, "up_aws")
                      /\ UNCHANGED <<od, s3, status>>
                   \/ /\ ~startswith(value.input_file_path, "s3://")
                      /\ status' = "crashed"
                      /\ UNCHANGED <<od, s3, wrow, pc, ret>>
           ELSE /\ \E etag \in ETags(stored_body(value.input_file_path), args.chunk_size) :
                      s3' = s3 \cup {[bucket |-> bucket_name, key |-> s3_file,
                                      body |-> stored_body(value.input_file_path),
                                      etag |-> etag, mtime |-> <<"t", run>>]}
                /\ hist' = [hist EXCEPT !.calls = @ \cup {<<"exists", i>>, <<"transfer", i>>},
                                        !.methods = @ \cup {<<aws_method(value), i>>}]
                /\ pc' = [pc EXCEPT ![0] = "up_aws_head"]
                /\ UNCHANGED <<od, wrow, ret, status>>
    /\ tmpfiles' = IF pc'[0] = "up_aws_head" THEN tmpfiles ELSE remove_staged(tmpfiles, wrow[0])
    /\ UNCHANGED <<cvars, futures, uploads, out_file, wk, queue, held, gcs, gs_crc32c>>

\* response = head_object(...); add_aws_manifest_metadata(...); then
\* update_manifest_file at the end of the loop body
UploadAwsHead ==
    /\ Running /\ pc[0] = "up_aws_head"
    /\ LET i == wrow[0]
           value == od[i]
           bucket_name == get_bucket_name(value)
           s3_file == s3_file_of(value)
       IN  /\ od' = [od EXCEPT ![i] = add_aws_manifest_metadata(value,
                          head_object(bucket_name, s3_file), s3_url(bucket_name, s3_file))]
           /\ hist' = issue("head", i)
           /\ wrow' = [wrow EXCEPT ![0] = i + 1]
           /\ tmpfiles' = remove_staged(tmpfiles, i)
           /\ call_update_manifest_file(0, "up_aws")
    /\ UNCHANGED <<cvars, futures, uploads, out_file, wk, queue, held, s3, gcs, gs_crc32c, status>>

\* ------------------------------------------------------------------------
\* process.py: the provider-B checksum phase and upload_to_gcloud
\* ------------------------------------------------------------------------
\* executor.submit(calculate_gs_checksum, ...) for every row of od
SubmitGsChecksums ==
    /\ Running /\ pc[0] = "gs_checksums"
    /\ queue' = [i \in 1..Len(od) |-> i]
    /\ pc' = [pc EXCEPT ![0] = "gs_wait"]
    /\ UNCHANGED <<cvars, futures, uploads, tmpfiles, od, out_file, wrow, wk, ret, held, s3, gcs, gs_crc32c, status, hist>>

\* calculate_gs_checksum(input_file_path, value, od, out_file, resume_mode)
\* up to its call of update_manifest_file
CalcGs(t) ==
    /\ Running /\ pc[t] = "calc_gs" /\ variant = "process"
    /\ LET value == od[wrow[t]]
           path == value.input_file_path
       IN  IF startswith(path, "gs://") \/ startswith(path, "s3://")
           THEN /\ pc' = [pc EXCEPT ![t] = "idle"]
                /\ UNCHANGED <<od, ret, gs_crc32c, hist>>
           ELSE IF already_calculated(value, "gs_crc32c")
           THEN /\ gs_crc32c' = (path :> crc32c_uint(value.gs_crc32c)) @@ gs_crc32c
                /\ pc' = [pc EXCEPT ![t] = "idle"]
                /\ UNCHANGED <<od, ret, hist>>
           ELSE /\ od' = [od EXCEPT ![wrow[t]].gs_crc32c = crc32c_b64(fs[path])]
                /\ gs_crc32c' = (path :> crc32c_uint(crc32c_b64(fs[path]))) @@ gs_crc32c
                /\ hist' = [hist EXCEPT !.computed = probe(@, "gs", wrow[t])]
                /\ call_update_manifest_file(t, "idle")
    /\ UNCHANGED <<cvars, futures, uploads, tmpfiles, out_file, wrow, wk, queue, held, s3, gcs, status>>

\* leaving the pool of calculate_gs_checksums: as in calculate_aws_checksums,
\* an exception of a work item that is no ValueError ends the script
JoinGsChecksums ==
    /\ Running /\ pc[0] = "gs_wait"
    /\ Len(queue) = 0 /\ \A t \in Workers : pc[t] = "idle"
    /\ IF futures # {}
       THEN /\ status' = "crashed"
            /\ UNCHANGED <<pc, wrow>>
       ELSE /\ pc' = [pc EXCEPT ![0] = IF variant = "process_directory" THEN "rsync" ELSE "up_gs"]
            /\ wrow' = [wrow EXCEPT ![0] = 1]
            /\ UNCHANGED status
    /\ UNCHANGED <<cvars, futures, uploads, tmpfiles, od, out_file, wk, ret, queue, held, s3, gcs, gs_crc32c, hist>>

\* resume_mode and 'gs_path' in value.keys() and value['gs_path'].startswith('gs://')
resume_skip_gs(value) == args.resume /\ startswith(value.gs_path, "gs://")

\* the head of the loop body of upload_to_gcloud: resume-skip, and for a
\* provider-A source the download to a temporary file and its checksum. A
\* download_file that fails raises ClientError, which is no BadRequest: the
\* finally clause runs and the script ends
UploadGsBegin ==
    /\ Running /\ pc[0] = "up_gs"
    /\ LET i == wrow[0] IN
       IF i > Len(od)
       THEN /\ pc' = [pc EXCEPT ![0] = IF args.aws THEN "aws_checksums" ELSE "final"]
            /\ UNCHANGED <<od, wrow, ret, hist, gs_crc32c, tmpfiles, status>>
       ELSE IF resume_skip_gs(od[i])
       THEN /\ wrow' = [wrow EXCEPT ![0] = i + 1]
            /\ UNCHANGED <<od, pc, ret, hist, gs_crc32c, tmpfiles, status>>
       ELSE IF startswith(od[i].input_file_path, "s3://")
       THEN LET path == od[i].input_file_path IN
            /\ hist' = issue("download", i)
            /\ \/ /\ path \in faults
                  /\ status' = "crashed"
                  /\ tmpfiles' = remove_staged(tmpfiles \cup {i}, i)
                  /\ UNCHANGED <<od, pc, ret, gs_crc32c>>
               \/ /\ tmpfiles' = tmpfiles \cup {i}
                  /\ IF args.resume /\ Len(od[i].gs_crc32c) > 0
                     THEN /\ gs_crc32c' = (path :> crc32c_uint(od[i].gs_crc32c)) @@ gs_crc32c
                          /\ pc' = [pc EXCEPT ![0] = "up_gs_exists"]
                          /\ UNCHANGED <<od, ret>>
                     ELSE /\ od' = [od EXCEPT ![i].gs_crc32c = crc32c_b64(source_body(path))]
                          /\ gs_crc32c' = (path :> crc32c_uint(crc32c_b64(source_body(path))))
                                              @@ gs_crc32c
                          /\ call_update_manifest_file(0, "up_gs_exists")
                  /\ UNCHANGED status
            /\ UNCHANGED wrow
       ELSE /\ pc' = [pc EXCEPT ![0] = "up_gs_exists"]
            /\ UNCHANGED <<od, wrow, ret, hist, gs_crc32c, tmpfiles, status>>
    /\ UNCHANGED <<cvars, futures, uploads, out_file, wk, queue, held, s3, gcs>>

\* calculate_md5sum(input_file_path) as add_gs_manifest_metadata calls it in
\* upload_to_gcloud: a provider-A source has been staged in a local file
calculate_md5sum_staged(path) ==
    IF startswith(path, "s3://") THEN calculate_md5sum(source_body(path))
    ELSE calculate_md5sum_path(path)

\* add_gs_manifest_metadata(fields, blob, gs_path, input_file_path) of process.py
add_gs_manifest_metadata(fields, blob, gs_path) ==
    LET f1 == [fields EXCEPT !.gs_path = gs_path,
                             !.gs_modified_date = blob.updated,
                             !.gs_file_size = <<"int", Len(blob.body)>>]
    IN  IF Len(f1.md5sum) = 0
        THEN [f1 EXCEPT !.md5sum = IF blob.has_md5 THEN b64digest(md5(blob.body))
                                   ELSE calculate_md5sum_staged(fields.input_file_path)]
        ELSE f1

gs_url(bucket_name, name) == <<"gs://", bucket_name>> \o name

\* the way upload_to_gcloud sends a row whose blob is absent: gsutil cp of
\* input_file_path, which is the temporary file for an s3:// source, the
\* gs:// object itself (a copy inside the provider) or the local file
gs_method(value) ==
    IF startswith(value.input_file_path, "s3://") THEN "staged"
    ELSE IF startswith(value.input_file_path, "gs://") THEN "copy"
    ELSE "upload"

\* the existence check and, when the blob is absent, gsutil cp and the
\* crc32c comparison; then update_manifest_file. A request the provider
\* rejects raises BadRequest, which the loop body catches; a gsutil cp that
\* fails makes subprocess.check_call raise CalledProcessError, which is no
\* BadRequest and ends the script; so does gsutil cp to a bucket that is
\* not there
UploadGsTransfer ==
    /\ Running /\ pc[0] = "up_gs_exists"
    /\ LET i == wrow[0]
           value == od[i]
           bucket_name == get_bucket_name(value)
           name == <<gs_crc32c[value.input_file_path], basename(value.input_file_path)>>
           found == {o \in gcs : o.bucket = bucket_name /\ o.name = name}
       IN  \/ /\ value.input_file_path \in faults \/ bucket_state(bucket_name) = "vanished"
              /\ found = {}
              /\ status' = "crashed"
              /\ hist' = [hist EXCEPT !.calls = @ \cup {<<"exists", i>>, <<"transfer", i>>},
                                      !.methods = @ \cup {<<gs_method(value), i>>}]
              /\ UNCHANGED <<od, gcs, wrow, pc, ret>>
           \/ /\ bucket_state(bucket_name) # "vanished"
              /\ IF value.input_file_path \in faults
                 THEN /\ od' = [od EXCEPT ![i] = blank(value, {"gs_path", "gs_modified_date",
                                                              "gs_file_size"})]
                      /\ hist' = issue("exists", i)
                      /\ UNCHANGED gcs
                 ELSE IF found # {}
                 THEN /\ od' = [od EXCEPT ![i] = add_gs_manifest_metadata(value,
                                    CHOOSE o \in found : TRUE, gs_url(bucket_name, name))]
                      /\ hist' = issue("exists", i)
                      /\ UNCHANGED gcs
                 ELSE \E has_md5 \in BOOLEAN :
                      LET blob == [bucket |-> bucket_name, name |-> name,
                                   body |-> stored_body(value.input_file_path),
                                   updated |-> <<"t", run>>, has_md5 |-> has_md5]
                      IN  /\ gcs' = gcs \cup {blob}
                          /\ hist' = [hist EXCEPT !.calls = @ \cup {<<"exists", i>>, <<"transfer", i>>},
                                                  !.methods = @ \cup {<<gs_method(value), i>>}]
                          /\ od' = IF value.gs_crc32c = crc32c_b64(blob.body)
                                   THEN [od EXCEPT ![i] = add_gs_manifest_metadata(value, blob,
                                                              gs_url(bucket_name, name))]
                                   ELSE od
              /\ wrow' = [wrow EXCEPT ![0] = i + 1]
              /\ call_update_manifest_file(0, "up_gs")
              /\ UNCHANGED status
    /\ tmpfiles' = remove_staged(tmpfiles, wrow[0])
    /\ UNCHANGED <<cvars, futures, uploads, out_file, wk, queue, held, s3, gs_crc32c>>

\* ------------------------------------------------------------------------
\* Identifier fields (process_directory.py, process_localdir_to_aws.py)
\* ------------------------------------------------------------------------
\* str(uuid.uuid4()): the n-th draw of the session
uuid4(n) == <<"uuid", n>>

add_new_drs_uri_unguarded(value, n) ==
    [value EXCEPT !.guid = <<"dg.4503/", uuid4(n)>>, !.ga4gh_drs_uri = <<"drs://", uuid4(n)>>]

\* add_new_drs_uri(value), drawing uuid number n
add_new_drs_uri(value, n) ==
    IF ~startswith(value.ga4gh_drs_uri, "drs://")
    THEN [value EXCEPT !.guid = <<"dg.4503/", uuid4(n)>>,
                       !.ga4gh_drs_uri = <<"drs://", uuid4(n)>>]
    ELSE value

\* the number of uuid4() draws after a step that turned row old into row new
drawn(old, new) == IF new.ga4gh_drs_uri # old.ga4gh_drs_uri THEN hist.uuids + 1 ELSE hist.uuids

\* ------------------------------------------------------------------------
\* process_localdir_to_aws.py
\* ------------------------------------------------------------------------
\* the fields process_row of process_localdir_to_aws.py blanks when not resuming
LocaldirBlankFields == {"file_size", "guid", "ga4gh_drs_uri", "md5sum", "s3_md5sum", "s3_path",
                        "s3_modified_date", "s3_file_size"}

\* od[input_file] = row
localdir_key(row) == row.input_file_path

\* process_row(row, test_mode, resume_mode) of process_localdir_to_aws.py
process_row_localdir(acc, row0) ==
    LET r1 == IF ~args.resume
              THEN [blank(row0, LocaldirBlankFields)
                        EXCEPT !.file_name = <<basename(row0.input_file_path)>>]
              ELSE row0
        r2 == IF r1.input_file_path \in DOMAIN fs
              THEN [r1 EXCEPT !.file_size = <<"int", Len(fs[r1.input_file_path])>>]
              ELSE r1
    IN  [acc EXCEPT !.od = od_put(acc.od, [i \in 1..Len(acc.od) |-> localdir_key(acc.od[i])],
                               localdir_key(r2), r2)]

RECURSIVE read_rows_localdir(_, _)
read_rows_localdir(rows, acc) ==
    IF Len(rows) = 0 THEN acc
    ELSE read_rows_localdir(Tail(rows), process_row_localdir(acc, Head(rows)))

\* aws_bucket_writeable(bucket_name, iam, arn, test_mode) of
\* process_localdir_to_aws.py: no dict, one request; the exception of a
\* request that cannot reach the service is not caught
aws_bucket_writeable_localdir(bucket_name) == bucket_state(bucket_name) = "allowed"
aws_bucket_writeable_raises(bucket_name) == bucket_state(bucket_name) = "unreachable"

\* main() of process_localdir_to_aws.py up to the checksum phase:
\* read_and_verify_file asks about the bucket first and exits if it is not
\* writeable; then it reads the rows. process_row records an unreadable
\* file in the module's all_files_readable, read_and_verify_file tests its
\* own local all_files_readable, which stays True; it exits in test mode
ReadAndVerifyLocaldir ==
    /\ Running /\ pc[0] = "main" /\ variant = "process_localdir_to_aws"
    /\ IF aws_bucket_writeable_raises(args.bucket)
       THEN /\ status' = "crashed"
            /\ hist' = [hist EXCEPT !.probes = probe(hist.probes, "aws", args.bucket)]
            /\ UNCHANGED <<od, out_file, pc>>
       ELSE IF ~aws_bucket_writeable_localdir(args.bucket)
       THEN /\ status' = "exit_validation"
            /\ hist' = [hist EXCEPT !.probes = probe(hist.probes, "aws", args.bucket)]
            /\ UNCHANGED <<od, out_file, pc>>
       ELSE IF reader_keyerror
       THEN /\ status' = "crashed"
            /\ hist' = [hist EXCEPT !.probes = probe(hist.probes, "aws", args.bucket)]
            /\ UNCHANGED <<od, out_file, pc>>
       ELSE LET acc == read_rows_localdir(reader_rows, [od |-> <<>>]) IN
            /\ od' = acc.od
            /\ hist' = [hist EXCEPT !.loaded = acc.od,
                                    !.probes = probe(hist.probes, "aws", args.bucket)]
            /\ IF args.test
               THEN /\ status' = "exit_test"
                    /\ UNCHANGED <<out_file, pc>>
               ELSE /\ out_file' = [lines |-> <<>>, pos |-> 0, open |-> TRUE, created |-> TRUE]
                    /\ pc' = [pc EXCEPT ![0] = "aws_checksums"]
                    /\ UNCHANGED status
    /\ UNCHANGED <<cvars, futures, uploads, tmpfiles, wrow, wk, ret, queue, held, s3, gcs, gs_crc32c>>

\* calculate_s3_md5sum(...) of process_localdir_to_aws.py up to its call of
\* update_manifest_file. For a file process_row could not read, file_size
\* is still text and value['file_size'] < boto_multipart_threshold raises
\* TypeError, which the future stores
CalcS3Localdir(t) ==
    /\ Running /\ pc[t] = "calc_s3" /\ variant = "process_localdir_to_aws"
    /\ LET value == od[wrow[t]]
           bytes == fs[value.input_file_path]
           tag == calculate_s3_md5sum_localdir(bytes, args.chunk_size)
       IN  IF already_calculated(value, "s3_md5sum")
           THEN /\ pc' = [pc EXCEPT ![t] = "idle"]
                /\ UNCHANGED <<od, ret, futures, hist>>
           ELSE IF value.input_file_path \notin DOMAIN fs
           THEN /\ futures' = futures \cup {wrow[t]}
                /\ pc' = [pc EXCEPT ![t] = "idle"]
                /\ UNCHANGED <<od, ret, hist>>
           ELSE /\ od' = [od EXCEPT ![wrow[t]] =
                              IF value.file_size[2] < boto_multipart_threshold
                              THEN [value EXCEPT !.s3_md5sum = tag, !.md5sum = tag]
                              ELSE [value EXCEPT !.s3_md5sum = tag]]
                /\ hist' = [hist EXCEPT !.computed = probe(@, "s3", wrow[t])]
                /\ call_update_manifest_file(t, "idle")
                /\ UNCHANGED futures
    /\ UNCHANGED <<cvars, uploads, tmpfiles, out_file, wrow, wk, queue, held, s3, gcs, gs_crc32c, status>>

\* calculate_md5sum(input_file_path) of process_localdir_to_aws.py
calculate_md5sum_localdir(path) ==
    IF path \in DOMAIN fs THEN calculate_md5sum(fs[path]) ELSE <<>>

\* add_aws_manifest_metadata(fields, response, path) of
\* process_localdir_to_aws.py, drawing uuid number n if it needs one
add_aws_manifest_metadata_localdir(fields, response, path, n) ==
    LET f1 == IF ~has_dash(response.etag) THEN [fields EXCEPT !.md5sum = response.etag]
              ELSE fields
        f2 == [f1 EXCEPT !.s3_path = path,
                         !.s3_modified_date = response.mtime,
                         !.s3_file_size = <<"int", Len(response.body)>>]
        f3 == IF Len(f2.md5sum) = 0
              THEN [f2 EXCEPT !.md5sum = calculate_md5sum_localdir(f2.input_file_path)]
              ELSE f2
    IN  add_new_drs_uri(f3, n)

checksum_check_always(fields, response) == TRUE

\* checksum_check(fields, response)
checksum_check(fields, response) == fields.s3_md5sum = response.etag

\* bucket.objects.filter(Prefix=path): the keys that start with path
is_prefix(path, key) == Len(path) <= Len(key) /\ SubSeq(key, 1, Len(path)) = path
objects_filter(bucket_name, path) == {o \in s3 : o.bucket = bucket_name /\ is_prefix(path, o.key)}

\* the entity tag provider A reports after upload_file with
\* multipart_threshold = boto_multipart_threshold and the given part size
upload_etag(body, chunk_size) ==
    IF Len(body) < boto_multipart_threshold THEN hexdigest(md5(body))
    ELSE calculate_s3_md5sum(body, chunk_size)

\* categorize_file_for_upload(value, resume_mode), the pool's work items
\* taken in submission order; after the last one, update_manifest_file
CategorizeFile ==
    /\ Running /\ pc[0] = "categorize"
    /\ LET i == wrow[0] IN
       IF i > Len(od)
       THEN /\ wrow' = [wrow EXCEPT ![0] = 1]
            /\ call_update_manifest_file(0, "up_regular")
            /\ UNCHANGED <<od, uploads, hist>>
       ELSE LET value == od[i]
                s3_file == value.input_file_path
                objs == objects_filter(args.bucket, s3_file)
                n == hist.uuids + 1
            IN  /\ wrow' = [wrow EXCEPT ![0] = i + 1]
                /\ UNCHANGED <<pc, ret>>
                /\ IF resume_skip_aws(value)
                   THEN /\ od' = [od EXCEPT ![i] = add_new_drs_uri(value, n)]
                        /\ hist' = [hist EXCEPT !.uuids = drawn(value, od'[i])]
                        /\ UNCHANGED uploads
                   ELSE IF objs # {} /\ checksum_check(value, CHOOSE o \in objs : TRUE)
                   THEN LET o == CHOOSE o \in objs : TRUE IN
                        /\ od' = [od EXCEPT ![i] = add_aws_manifest_metadata_localdir(value, o,
                                                       s3_url(args.bucket, o.key), n)]
                        /\ hist' = [hist EXCEPT !.uuids = drawn(value, od'[i]),
                                                !.calls = @ \cup {<<"exists", i>>, <<"head", i>>}]
                        /\ UNCHANGED uploads
                   ELSE /\ uploads' = IF value.file_size[2] < boto_multipart_threshold
                                      THEN [uploads EXCEPT !.regular = Append(@, i)]
                                      ELSE [uploads EXCEPT !.multipart = Append(@, i)]
                        /\ hist' = [hist EXCEPT !.calls = @ \cup
                                       ({<<"exists", i>>} \cup
                                        IF objs # {} THEN {<<"head", i>>} ELSE {})]
                        /\ UNCHANGED od
    /\ UNCHANGED <<cvars, futures, tmpfiles, out_file, wk, queue, held, s3, gcs, gs_crc32c, status>>

\* executor.submit(handle_aws_file_upload, ...) for every entry of the
\* list, in the list's order
SubmitUploads(list, here, wait) ==
    /\ Running /\ pc[0] = here
    /\ queue' = uploads[list]
    /\ pc' = [pc EXCEPT ![0] = wait]
    /\ UNCHANGED <<cvars, futures, uploads, tmpfiles, od, out_file, wrow, wk, ret, held, s3, gcs,
                   gs_crc32c, status, hist>>

\* handle_aws_file_upload(...) run by pool thread t for the entry it took:
\* upload_file, head_object, and the row's fields when checksum_check
\* passes. An upload the provider rejects raises in its work item, which
\* the future stores; the other work items still run.
HandleAwsFileUpload(t) ==
    /\ Running /\ pc[t] = "upload"
    /\ LET i == wrow[t]
           value == od[i]
           s3_file == value.input_file_path
           response == [bucket |-> args.bucket, key |-> s3_file,
                        body |-> stored_body(value.input_file_path),
                        etag |-> upload_etag(stored_body(value.input_file_path),
                                             args.chunk_size),
                        mtime |-> <<"t", run>>]
       IN  IF value.input_file_path \in faults
           THEN /\ futures' = futures \cup {i}
                /\ hist' = issue("transfer", i)
                /\ UNCHANGED <<od, s3>>
           ELSE /\ s3' = {o \in s3 : ~(o.bucket = args.bucket /\ o.key = s3_file)}
                             \cup {response}
                /\ od' = [od EXCEPT ![i] =
                              IF checksum_check(value, response)
                              THEN add_aws_manifest_metadata_localdir(value, response,
                                       s3_url(args.bucket, s3_file), hist.uuids + 1)
                              ELSE value]
                /\ hist' = [hist EXCEPT !.uuids = drawn(value, od'[i]),
                                        !.calls = @ \cup {<<"transfer", i>>, <<"head", i>>}]
                /\ UNCHANGED futures
    /\ pc' = [pc EXCEPT ![t] = "idle"]
    /\ UNCHANGED <<cvars, uploads, tmpfiles, out_file, wrow, wk, ret, queue, held, gcs, gs_crc32c,
                   status>>

\* leaving the with ThreadPoolExecutor block of an upload pool: every work
\* item has finished. future.result() re-raises what a work item raised (it
\* is no ValueError), which ends the script before update_manifest_file.
JoinUploads(wait, next) ==
    /\ Running /\ pc[0] = wait
    /\ Len(queue) = 0 /\ \A t \in Workers : pc[t] = "idle"
    /\ IF futures # {}
       THEN /\ status' = "crashed"
            /\ UNCHANGED <<pc, ret>>
       ELSE /\ call_update_manifest_file(0, next)
            /\ UNCHANGED status
    /\ UNCHANGED <<cvars, futures, uploads, tmpfiles, od, out_file, wrow, wk, queue, held, s3, gcs,
                   gs_crc32c, hist>>

\* upload_to_aws of process_localdir_to_aws.py: the regular uploads on a
\* pool of threads workers, then the multipart uploads on a pool of one
SubmitRegular == SubmitUploads("regular", "up_regular", "up_regular_wait")
JoinRegular == JoinUploads("up_regular_wait", "up_multipart")
SubmitMultipart == SubmitUploads("multipart", "up_multipart", "up_multipart_wait")
JoinMultipart == JoinUploads("up_multipart_wait", "final")

\* ------------------------------------------------------------------------
\* process_directory.py --gs
\* ------------------------------------------------------------------------
\* the fields process_row of process_directory.py blanks when not resuming
DirectoryBlankFields == {"guid", "ga4gh_drs_uri", "md5sum", "gs_crc32c", "gs_path",
                         "gs_modified_date", "gs_file_size", "s3_md5sum", "s3_path",
                         "s3_modified_date", "s3_file_size"}

\* directory + '/' + input_file
in_directory(input_file) == args.directory \o input_file

\* verify_gs_file(value, local_file, test_mode) of process_directory.py, on
\* the accumulator [od, crc, ok]: besides the checksums it stores the size
\* of the source blob in gs_file_size
verify_gs_file_directory(acc, value) ==
    IF gs_blob(value.input_file_path) = {} THEN [acc EXCEPT !.ok = FALSE]
    ELSE LET blob == CHOOSE o \in gs_blob(value.input_file_path) : TRUE
             v1 == [value EXCEPT !.gs_crc32c = crc32c_b64(blob.body),
                                 !.gs_file_size = <<"int", Len(blob.body)>>]
             v2 == IF blob.has_md5 THEN [v1 EXCEPT !.md5sum = hexdigest(md5(blob.body))] ELSE v1
         IN  [acc EXCEPT !.od = od_put(acc.od, process_keys(acc.od), process_key(v2), v2),
                         !.crc = (value.input_file_path :> crc32c_uint(v1.gs_crc32c)) @@ acc.crc]

\* verify_s3_file(value, local_file, test_mode) of process_directory.py:
\* besides the checksums it stores the size of the source object in
\* s3_file_size
verify_s3_file_directory(acc, value) ==
    IF s3_obj(value.input_file_path) = {} THEN [acc EXCEPT !.ok = FALSE]
    ELSE LET o == CHOOSE o \in s3_obj(value.input_file_path) : TRUE
             v1 == [value EXCEPT !.s3_md5sum = o.etag,
                                 !.s3_file_size = <<"int", Len(o.body)>>]
             v2 == IF ~has_dash(o.etag) THEN [v1 EXCEPT !.md5sum = o.etag] ELSE v1
         IN  [acc EXCEPT !.od = od_put(acc.od, process_keys(acc.od), process_key(v2), v2)]

\* process_row(od, directory, row, test_mode, resume_mode) of
\* process_directory.py
process_row_directory(acc, row0) ==
    LET row == IF ~args.resume
               THEN [blank(row0, DirectoryBlankFields)
                         EXCEPT !.file_name = <<basename(row0.input_file_path)>>]
               ELSE row0
        a1 == [acc EXCEPT !.od = od_put(acc.od, process_keys(acc.od), process_key(row), row)]
    IN  IF startswith(row.input_file_path, "gs://") THEN verify_gs_file_directory(a1, row)
        ELSE IF startswith(row.input_file_path, "s3://") THEN verify_s3_file_directory(a1, row)
        ELSE IF in_directory(row.input_file_path) \in DOMAIN fs THEN a1
        ELSE [a1 EXCEPT !.ok = FALSE]

RECURSIVE read_rows_directory(_, _)
read_rows_directory(rows, acc) ==
    IF Len(rows) = 0 THEN acc
    ELSE read_rows_directory(Tail(rows), process_row_directory(acc, Head(rows)))

\* verify_gs_buckets(bucket, od, test_mode) of process_directory.py: the
\* bucket of the command line, then get_bucket_name(value), which is that
\* same bucket, for every row
RECURSIVE verify_gs_buckets_directory(_, _)
verify_gs_buckets_directory(rows, acc) ==
    IF Len(rows) = 0 THEN acc
    ELSE verify_gs_buckets_directory(Tail(rows), gs_bucket_writeable(acc, args.bucket))

\* main() of process_directory.py up to the first phase: parse_args, which
\* exits when --aws is given or --gs is not, then read_and_verify_file and
\* get_receipt_manifest_file_pointer
ReadAndVerifyDirectory ==
    /\ Running /\ pc[0] = "main" /\ variant = "process_directory"
    /\ IF args.aws \/ ~args.gs
       THEN /\ status' = "exit_args"
            /\ UNCHANGED <<od, gs_crc32c, out_file, pc, hist, gs_buckets>>
       ELSE IF reader_keyerror
       THEN /\ status' = "crashed"
            /\ UNCHANGED <<od, gs_crc32c, out_file, pc, hist, gs_buckets>>
       ELSE LET acc == read_rows_directory(reader_rows, [od |-> <<>>, crc |-> <<>>, ok |-> TRUE])
                first == gs_bucket_writeable([memo |-> gs_buckets, probes |-> hist.probes,
                                              ok |-> TRUE, raised |-> FALSE], args.bucket)
                gsb == IF ~first.ok THEN first ELSE verify_gs_buckets_directory(acc.od, first)
            IN
            /\ od' = acc.od
            /\ gs_crc32c' = acc.crc
            /\ gs_buckets' = gsb.memo
            /\ hist' = [hist EXCEPT !.loaded = acc.od, !.probes = gsb.probes]
            /\ IF ~acc.ok \/ ~gsb.ok
               THEN /\ status' = "exit_validation"
                    /\ UNCHANGED <<out_file, pc>>
               ELSE IF args.test
               THEN /\ status' = "exit_test"
                    /\ UNCHANGED <<out_file, pc>>
               ELSE /\ out_file' = [lines |-> <<>>, pos |-> 0, open |-> TRUE, created |-> TRUE]
                    /\ pc' = [pc EXCEPT ![0] = "gs_checksums"]
                    /\ UNCHANGED status
    /\ UNCHANGED <<evars, aws_buckets, futures, uploads, tmpfiles, wrow, wk, ret, queue, held, s3, gcs>>

\* calculate_gs_checksum(directory + '/' + value['input_file_path'], value,
\* chunk_size, od, out_file, resume_mode) up to its call of
\* update_manifest_file. The path it is given starts with the directory, so
\* for a cloud source open() raises FileNotFoundError, which the future stores
CalcGsDirectory(t) ==
    /\ Running /\ pc[t] = "calc_gs" /\ variant = "process_directory"
    /\ LET value == od[wrow[t]]
           path == value.input_file_path
           crc == crc32c_b64(fs[in_directory(path)])
       IN  IF already_calculated(value, "gs_crc32c")
           THEN /\ gs_crc32c' = (path :> crc32c_uint(value.gs_crc32c)) @@ gs_crc32c
                /\ pc' = [pc EXCEPT ![t] = "idle"]
                /\ UNCHANGED <<od, ret, futures, hist>>
           ELSE IF in_directory(path) \notin DOMAIN fs
           THEN /\ futures' = futures \cup {wrow[t]}
                /\ pc' = [pc EXCEPT ![t] = "idle"]
                /\ UNCHANGED <<od, ret, gs_crc32c, hist>>
           ELSE /\ od' = [od EXCEPT ![wrow[t]].gs_crc32c = crc]
                /\ gs_crc32c' = (path :> crc32c_uint(crc)) @@ gs_crc32c
                /\ hist' = [hist EXCEPT !.computed = probe(@, "gs", wrow[t])]
                /\ call_update_manifest_file(t, "idle")
                /\ UNCHANGED futures
    /\ UNCHANGED <<cvars, uploads, tmpfiles, out_file, wrow, wk, queue, held, s3, gcs, status>>

\* gsutil -m rsync -r directory gs://bucket/directory: every file of the
\* directory that the bucket lacks or holds with another content is copied.
\* A failing gsutil raises CalledProcessError, which nothing catches.
RsyncDirectory ==
    /\ Running /\ pc[0] = "rsync"
    /\ IF faults # {}
       THEN /\ status' = "crashed"
            /\ UNCHANGED <<gcs, pc, wrow>>
       ELSE LET present(path) == \E o \in gcs : /\ o.bucket = args.bucket /\ o.name = path
                                                /\ o.body = fs[path]
                copied == {path \in DOMAIN fs : ~present(path)}
                sent(path) == IF \E q \in corrupt : in_directory(q) = path
                              THEN corrupted(fs[path]) ELSE fs[path]
            IN  /\ gcs' = {o \in gcs : ~(o.bucket = args.bucket /\ o.name \in copied)}
                          \cup {[bucket |-> args.bucket, name |-> path, body |-> sent(path),
                                 updated |-> <<"t", run>>, has_md5 |-> TRUE] : path \in copied}
                /\ pc' = [pc EXCEPT ![0] = "verify_gs"]
                /\ wrow' = [wrow EXCEPT ![0] = 1]
                /\ UNCHANGED status
    /\ UNCHANGED <<cvars, futures, uploads, tmpfiles, od, out_file, wk, ret, queue, held, s3, gs_crc32c, hist>>

\* add_gs_manifest_metadata(fields, blob, gs_path, input_file_path) of
\* process_directory.py, drawing uuid number n if it needs one
add_gs_manifest_metadata_directory(fields, blob, gs_path, n) ==
    LET f1 == [fields EXCEPT !.gs_path = gs_path,
                             !.gs_modified_date = blob.updated,
                             !.gs_file_size = <<"int", Len(blob.body)>>]
        f2 == IF Len(f1.md5sum) = 0
              THEN [f1 EXCEPT !.md5sum =
                        IF blob.has_md5 THEN hexdigest(md5(blob.body))
                        ELSE calculate_md5sum(fs[in_directory(fields.input_file_path)])]
              ELSE f1
    IN  add_new_drs_uri(f2, n)

\* verify_gcloud_uploads(od, directory), one row of its loop at a time;
\* after the last row, update_manifest_file. For a path the bucket does not
\* hold, bucket.get_blob returns None and blob.exists() raises AttributeError
VerifyGcloudUpload ==
    /\ Running /\ pc[0] = "verify_gs"
    /\ LET i == wrow[0] IN
       IF i > Len(od)
       THEN /\ call_update_manifest_file(0, "final")
            /\ UNCHANGED <<od, wrow, hist, status>>
       ELSE IF ~\E o \in gcs : /\ o.bucket = args.bucket
                                /\ o.name = in_directory(od[i].input_file_path)
       THEN /\ status' = "crashed"
            /\ UNCHANGED <<od, wrow, hist, pc, ret>>
       ELSE LET value == od[i]
                path == in_directory(value.input_file_path)
                blob == CHOOSE o \in gcs : o.bucket = args.bucket /\ o.name = path
            IN  /\ UNCHANGED status
                /\ od' = [od EXCEPT ![i] =
                              IF value.gs_crc32c = crc32c_b64(blob.body)
                              THEN add_gs_manifest_metadata_directory(value, blob,
                                       gs_url(args.bucket, path), hist.uuids + 1)
                              ELSE value]
                /\ hist' = [hist EXCEPT !.uuids = drawn(value, od'[i]),
                                        !.calls = @ \cup {<<"exists", i>>}]
                /\ wrow' = [wrow EXCEPT ![0] = i + 1]
                /\ UNCHANGED <<pc, ret>>
    /\ UNCHANGED <<cvars, futures, uploads, tmpfiles, out_file, wk, queue, held, s3, gcs, gs_crc32c>>

\* ------------------------------------------------------------------------
\* process.py: the end of main(), the signal handler, the next invocation
\* ------------------------------------------------------------------------
\* if (args.resume): update_manifest_file(out_file, od)
Final ==
    /\ Running /\ pc[0] = "final"
    /\ IF args.resume
       THEN call_update_manifest_file(0, "close")
       ELSE /\ pc' = [pc EXCEPT ![0] = "close"]
            /\ UNCHANGED ret
    /\ UNCHANGED <<cvars, futures, uploads, tmpfiles, od, out_file, wrow, wk, queue, held, s3, gcs, gs_crc32c, status, hist>>

\* out_file.close(); upload_manifest_file(...); "Done."
Close ==
    /\ Running /\ pc[0] = "close"
    /\ out_file' = [out_file EXCEPT !.open = FALSE]
    /\ status' = "done"
    /\ UNCHANGED <<cvars, futures, uploads, tmpfiles, od, pc, wrow, wk, ret, queue, held, s3, gcs, gs_crc32c, hist>>

\* exit_and_write_manifest_file(signum, frame), run by the main thread on
\* SIGINT, SIGTERM or SIGHUP: close out_file if it is open, sys.exit(1)
exit_and_write_manifest_file ==
    /\ Running
    /\ out_file' = [out_file EXCEPT !.open = FALSE]
    /\ status' = "interrupted"
    /\ hist' = [hist EXCEPT !.int_at = pc[0],
                            !.int_k = IF pc[0] = "up_aws" THEN wrow[0] - 1 ELSE 0]
    /\ UNCHANGED <<cvars, futures, uploads, tmpfiles, od, pc, wrow, wk, ret, queue, held, s3, gcs, gs_crc32c>>

\* the exit status of the process: exit() without an argument after a
\* refused argument, a validation failure or test mode, and the end of
\* main, give 0; sys.exit(1) of the signal handler and an uncaught exception
\* give 1
exit_status ==
    IF status \in {"interrupted", "crashed"} THEN 1 ELSE 0

no_uploads == [regular |-> <<>>, multipart |-> <<>>]

HistInit == [persist_begun |-> FALSE, uuids |-> 0, int_at |-> "", int_k |-> 0, calls |-> {},
             methods |-> {}, computed |-> <<>>,
             probes |-> <<>>, loaded |-> <<>>, prev |-> <<>>, prev_status |-> "", prev_resume |-> FALSE,
             prev_int_at |-> "", prev_int_k |-> 0]

\* the operator starts the script again with --resume on the receipt
\* manifest the previous invocation left
NextRun(runs) ==
    /\ status \in {"done", "interrupted"} /\ out_file.created
    /\ run < runs
    /\ run' = run + 1
    /\ tsv' = out_file.lines
    /\ args' = [args EXCEPT !.resume = TRUE]
    /\ od' = <<>>
    /\ out_file' = no_file
    /\ pc' = [t \in DOMAIN pc |-> IF t = 0 THEN "main" ELSE "idle"]
    /\ wrow' = [t \in DOMAIN pc |-> 0]
    /\ wk' = [t \in DOMAIN pc |-> 0]
    /\ ret' = [t \in DOMAIN pc |-> ""]
    /\ queue' = <<>>
    /\ held' = {}
    /\ gs_crc32c' = <<>>
    /\ uploads' = no_uploads
    /\ futures' = {}
    /\ status' = ""
    /\ hist' = [hist EXCEPT !.persist_begun = FALSE, !.calls = {}, !.probes = <<>>,
                            !.loaded = <<>>, !.computed = <<>>, !.methods = {},
                            !.prev = out_file.lines, !.prev_status = status,
                            !.prev_resume = args.resume,
                            !.prev_int_at = hist.int_at, !.prev_int_k = hist.int_k,
                            !.int_at = "", !.int_k = 0]
    /\ aws_buckets' = <<>>
    /\ gs_buckets' = <<>>
    /\ UNCHANGED <<dg, variant, fs, faults, corrupt, buckets, s3, gcs, tmpfiles>>

\* ------------------------------------------------------------------------
\* Spec: process.py --aws on local files with a pool of NumThreads threads
\* ------------------------------------------------------------------------
local_path(i) == <<"/", "data", i>>
LocalContents == {<<0>>, <<0, 1>>}

DigestIdle == dg = [variant |-> "none", bytes |-> <<>>, chunk_size |-> 1, pc |-> "none",
                    s3_md5sum |-> <<>>, md5sum |-> <<>>]

Init ==
    /\ DigestIdle
    /\ variant = "process"
    /\ args = [aws |-> TRUE, gs |-> FALSE, test |-> FALSE, resume |-> FALSE,
               threads |-> NumThreads, chunk_size |-> 1, bucket |-> <<>>, directory |-> <<>>]
    /\ fs \in [{local_path(i) : i \in 1..NumRows} -> LocalContents]
    /\ tsv = <<header_row>> \o [i \in 1..NumRows |-> input_row("s1", "c1", local_path(i))]
    /\ od = <<>>
    /\ out_file = no_file
    /\ pc = [t \in 0..NumThreads |-> IF t = 0 THEN "main" ELSE "idle"]
    /\ wrow = [t \in 0..NumThreads |-> 0]
    /\ wk = [t \in 0..NumThreads |-> 0]
    /\ ret = [t \in 0..NumThreads |-> ""]
    /\ queue = <<>>
    /\ held = {}
    /\ s3 = {}
    /\ gcs = {}
    /\ gs_crc32c = <<>>
    /\ uploads = no_uploads
    /\ tmpfiles = {}
    /\ futures = {}
    /\ faults = {}
    /\ corrupt = {}
    /\ buckets = <<>>
    /\ aws_buckets = <<>>
    /\ gs_buckets = <<>>
    /\ run = 1
    /\ status = ""
    /\ hist = HistInit

update_manifest_file(t) ==
    Lock(t) \/ Seek(t) \/ Truncate(t) \/ WriteHeader(t) \/ WriteRow(t) \/ Unlock(t)

Next ==
    \/ ReadAndVerify
    \/ SubmitAwsChecksums
    \/ \E t \in Workers : TakeTask(t) \/ CalcS3(t)
    \/ JoinAwsChecksums
    \/ \E t \in DOMAIN pc : update_manifest_file(t)
    \/ UploadAwsBegin \/ UploadAwsTransfer \/ UploadAwsHead
    \/ Final \/ Close
    \/ exit_and_write_manifest_file
    \/ NextRun(MaxRuns)

Spec == Init /\ [][Next]_vars

\* ------------------------------------------------------------------------
\* SpecTransfer: the three scripts with one pool thread, over local and
\* cloud sources, with rejected transfers, interrupts and --resume runs
\* ------------------------------------------------------------------------
\* --resume invocations after the first run
MaxResumes == 2

SourceKinds == {"/", "gs://", "s3://"}
TransferBodies == {<<0, 1>>, <<1>>}
LocaldirBodies == {<<0, 1>>, <<0, 1, 2, 3>>}
FileNameChoices == {"f", "g"}
ConsentChoices == {"c1", "c2"}

\* the path of a source of the given kind
source_path(kind, dir, name) ==
    IF kind = "/" THEN <<"/", dir, name>> ELSE <<kind, <<"src">>, dir, name>>

\* the sources [kind, dir, name, body] as local files and as provider objects
local_files(srcs) ==
    LET locals == {x \in srcs : x.kind = "/"} IN
    [p \in {source_path(x.kind, x.dir, x.name) : x \in locals} |->
        (CHOOSE x \in locals : source_path(x.kind, x.dir, x.name) = p).body]

gs_sources(srcs) ==
    {[bucket |-> <<"src">>, name |-> <<x.dir, x.name>>, body |-> x.body,
      updated |-> <<"t", 0>>, has_md5 |-> TRUE] : x \in {y \in srcs : y.kind = "gs://"}}

s3_sources(srcs) ==
    {[bucket |-> <<"src">>, key |-> <<x.dir, x.name>>, body |-> x.body,
      etag |-> x.etag, mtime |-> <<"t", 0>>] : x \in {y \in srcs : y.kind = "s3://"}}

\* a first run of script v with arguments a on the manifest rows
TransferSetup(v, a, files, rows, objsA, objsB, flt) ==
    /\ DigestIdle
    /\ variant = v
    /\ args = a
    /\ fs = files
    /\ tsv = <<header_row>> \o rows
    /\ od = <<>>
    /\ out_file = no_file
    /\ pc = [t \in 0..1 |-> IF t = 0 THEN "main" ELSE "idle"]
    /\ wrow = [t \in 0..1 |-> 0]
    /\ wk = [t \in 0..1 |-> 0]
    /\ ret = [t \in 0..1 |-> ""]
    /\ queue = <<>>
    /\ held = {}
    /\ s3 = objsA
    /\ gcs = objsB
    /\ gs_crc32c = <<>>
    /\ uploads = no_uploads
    /\ tmpfiles = {}
    /\ futures = {}
    /\ faults = flt
    /\ aws_buckets = <<>>
    /\ gs_buckets = <<>>
    /\ run = 1
    /\ status = ""
    /\ hist = HistInit

\* process.py --aws or --gs on two sources of any kind; the transfer of
\* at most one of them, a row of FaultRows, is rejected
ProcessSetup(FaultRows) ==
    \E k1, k2 \in SourceKinds, n2 \in FileNameChoices, b2 \in TransferBodies, aws \in BOOLEAN :
    \E c2 \in ConsentChoices :
    \E e1 \in ETags(<<0, 1>>, 1), e2 \in ETags(b2, 1) :
    LET x1 == [kind |-> k1, dir |-> "d1", name |-> "f", body |-> <<0, 1>>, etag |-> e1]
        x2 == [kind |-> k2, dir |-> "d2", name |-> n2, body |-> b2, etag |-> e2]
        p1 == source_path(k1, "d1", "f")
        p2 == source_path(k2, "d2", n2)
    IN  /\ k1 # "s3://" => e1 = hexdigest(md5(<<0, 1>>))
        /\ k2 # "s3://" => e2 = hexdigest(md5(b2))
        /\ \E flt \in {{}} \cup {{<<p1, p2>>[k]} : k \in FaultRows} :
               TransferSetup("process",
                   [aws |-> aws, gs |-> ~aws, test |-> FALSE, resume |-> FALSE, threads |-> 1, chunk_size |-> 1,
                    bucket |-> <<>>, directory |-> <<>>],
                   local_files({x1, x2}),
                   <<input_row("s1", "c1", p1), input_row("s1", c2, p2)>>,
                   s3_sources({x1, x2}), gs_sources({x1, x2}), flt)

InitProcess == ProcessSetup({2})

\* process_directory.py --gs (or, refused by parse_args, --aws) on a
\* directory of two files
InitDirectory ==
    \E n2 \in FileNameChoices, b2 \in TransferBodies, aws \in BOOLEAN :
    \E flt \in {{}, {<<"f">>}} :
        TransferSetup("process_directory",
            [aws |-> aws, gs |-> TRUE, test |-> FALSE, resume |-> FALSE, threads |-> 1, chunk_size |-> 1,
             bucket |-> <<"bkt">>, directory |-> <<"/", "dir">>],
            (<<"/", "dir", "f">> :> <<0, 1>>) @@ (<<"/", "dir", "sub", n2>> :> b2),
            <<input_row("s1", "c1", <<"f">>), input_row("s1", "c1", <<"sub", n2>>)>>,
            {}, {}, flt)

\* process_localdir_to_aws.py on two local files
InitLocaldir ==
    \E n2 \in FileNameChoices, b1, b2 \in LocaldirBodies :
    \E flt \in {{}, {<<"/", "d2", n2>>}} :
        TransferSetup("process_localdir_to_aws",
            [aws |-> TRUE, gs |-> FALSE, test |-> FALSE, resume |-> FALSE, threads |-> 1, chunk_size |-> 2,
             bucket |-> <<"bkt">>, directory |-> <<>>],
            (<<"/", "d1", "f">> :> b1) @@ (<<"/", "d2", n2>> :> b2),
            <<input_row("s1", "c1", <<"/", "d1", "f">>), input_row("s1", "c1", <<"/", "d2", n2>>)>>,
            {}, {}, flt)

\* a signal that arrives while the main thread is at the head of one of
\* the per-row loops of the transfer step
RowLoops == {"up_aws", "up_gs", "categorize", "up_regular", "up_multipart", "verify_gs"}
InterruptBetweenRows ==
    /\ \/ pc[0] \in RowLoops
       \/ pc[0] \in UploadWaits /\ \A t \in Workers : pc[t] = "idle"
    /\ exit_and_write_manifest_file

InitTransfer == (InitProcess \/ InitDirectory \/ InitLocaldir) /\ buckets = <<>> /\ corrupt = {}

NextTransfer ==
    \/ ReadAndVerify \/ ReadAndVerifyDirectory \/ ReadAndVerifyLocaldir
    \/ SubmitAwsChecksums \/ SubmitGsChecksums
    \/ \E t \in Workers : TakeTask(t) \/ CalcS3(t) \/ CalcGs(t) \/ CalcS3Localdir(t)
                            \/ CalcGsDirectory(t)
    \/ JoinAwsChecksums \/ JoinGsChecksums
    \/ \E t \in DOMAIN pc : update_manifest_file(t)
    \/ UploadAwsBegin \/ UploadAwsTransfer \/ UploadAwsHead
    \/ UploadGsBegin \/ UploadGsTransfer
    \/ RsyncDirectory \/ VerifyGcloudUpload
    \/ CategorizeFile \/ SubmitRegular \/ JoinRegular \/ SubmitMultipart \/ JoinMultipart
    \/ \E t \in Workers : HandleAwsFileUpload(t)
    \/ Final \/ Close
    \/ InterruptBetweenRows
    \/ NextRun(1 + MaxResumes)

SpecTransfer == InitTransfer /\ [][NextTransfer]_vars

\* ------------------------------------------------------------------------
\* SpecRead: the checksum functions read a local file block by block, on a
\* device that may refuse the open or fail a read
\* ------------------------------------------------------------------------
ReadVariants == {"process", "process_directory", "process_localdir_to_aws"}

\* the value of a function that ends with a bare return
None == <<"None">>

\* the digest fields of the row as csv.writer writes them: None is written
\* as the empty string
digest_cells(d) ==
    [f \in {"s3_md5sum", "md5sum", "gs_crc32c"} |-> IF d[f] = None THEN <<>> ELSE d[f]]

\* fp.read(66 * 1024 * 1024) of calculate_md5sum, in blocks of 16 MiB
md5sum_read_size == 5

\* the call goes through calculate_md5sum of process_localdir_to_aws.py
whole_file_md5(d) ==
    d.variant = "process_localdir_to_aws" /\ Len(d.bytes) < boto_multipart_threshold

\* the size asked of fp.read
read_size(d) == IF whole_file_md5(d) THEN md5sum_read_size ELSE d.chunk_size

\* bad = 0: the file cannot be opened; bad = k: the device fails when block
\* k is read; bad > Len(bytes): the whole file can be read
InitRead ==
    /\ \E v \in ReadVariants, b \in Files, c \in 1..MaxChunkSize :
       \E bad \in 0..(Len(b) + 1) :
           dg = [variant |-> v, bytes |-> b, chunk_size |-> c, pc |-> "call",
                 s3_md5sum |-> <<>>, md5sum |-> <<>>, gs_crc32c |-> <<>>,
                 bad |-> bad, pos |-> 0, md5s |-> <<>>, acc |-> <<>>,
                 written |-> [f \in {"s3_md5sum", "md5sum", "gs_crc32c"} |-> <<>>]]
    /\ RunIdle

\* with open(input_file_path, 'rb') as fp: open raises when the file cannot
\* be opened. calculate_md5sum of process_localdir_to_aws.py tests isfile
\* and access first and ends with a bare return, whose None the caller
\* stores in s3_md5sum and md5sum
ReadOpen ==
    /\ dg.pc = "call"
    /\ IF dg.bad > 0 THEN dg' = [dg EXCEPT !.pc = "reading"]
       ELSE IF whole_file_md5(dg)
       THEN dg' = [dg EXCEPT !.s3_md5sum = None, !.md5sum = None, !.pc = "persist"]
       ELSE dg' = [dg EXCEPT !.pc = "raised"]
    /\ UNCHANGED rvars

ReadChunk_storing ==
    /\ dg.pc = "reading"
    /\ LET n == Min(read_size(dg), Len(dg.bytes) - dg.pos)
           data == SubSeq(dg.bytes, dg.pos + 1, dg.pos + n)
       IN  IF n = 0 THEN dg' = [dg EXCEPT !.pc = "store"]
           ELSE IF dg.bad \in (dg.pos + 1)..(dg.pos + n) THEN dg' = [dg EXCEPT !.pc = "raised"]
           ELSE dg' = [dg EXCEPT !.md5s = Append(@, md5(data)), !.acc = @ \o data,
                                 !.pos = @ + n,
                                 !.s3_md5sum = computed_checksum(Append(dg.md5s, md5(data)))]
    /\ UNCHANGED rvars

\* data = fp.read(size); if not data: break; the hash objects take data.
\* A read the device fails raises out of the function
ReadChunk ==
    /\ dg.pc = "reading"
    /\ LET n == Min(read_size(dg), Len(dg.bytes) - dg.pos)
           data == SubSeq(dg.bytes, dg.pos + 1, dg.pos + n)
       IN  IF n = 0 THEN dg' = [dg EXCEPT !.pc = "store"]
           ELSE IF dg.bad \in (dg.pos + 1)..(dg.pos + n) THEN dg' = [dg EXCEPT !.pc = "raised"]
           ELSE dg' = [dg EXCEPT !.md5s = Append(@, md5(data)), !.acc = @ \o data,
                                 !.pos = @ + n]
    /\ UNCHANGED rvars

\* after the loop: value['s3_md5sum'] = computed_checksum (process.py);
\* value['gs_crc32c'] = base64 of crc32c.digest() (calculate_gs_checksum of
\* process_directory.py); md5sum and s3_md5sum from m.hexdigest() below the
\* threshold in process_localdir_to_aws.py
StoreDigest ==
    /\ dg.pc = "store"
    /\ dg' = IF dg.variant = "process_directory"
             THEN [dg EXCEPT !.gs_crc32c = crc32c_b64(dg.acc), !.pc = "persist"]
             ELSE IF whole_file_md5(dg)
             THEN [dg EXCEPT !.s3_md5sum = hexdigest(md5(dg.acc)),
                             !.md5sum = hexdigest(md5(dg.acc)), !.pc = "persist"]
             ELSE [dg EXCEPT !.s3_md5sum = computed_checksum(dg.md5s), !.pc = "persist"]
    /\ UNCHANGED rvars

\* update_manifest_file(out_file, od), the last statement of the function
PersistDigest ==
    /\ dg.pc = "persist"
    /\ dg' = [dg EXCEPT !.written = digest_cells(dg), !.pc = "returned"]
    /\ UNCHANGED rvars

NextRead == ReadOpen \/ ReadChunk \/ StoreDigest \/ PersistDigest

SpecRead == InitRead /\ [][NextRead]_vars

\* ------------------------------------------------------------------------
\* SpecStream: the streaming transfers of process_directory.py between the
\* providers, applied to objects of every size and to every buffer size
\* ------------------------------------------------------------------------
StreamVariants == {"s3_to_gcloud", "gcloud_to_s3"}

\* the bytes the provider delivers for the range first..last of an object
\* of the given size: a range that ends past the object is cut at its end
delivered(first, last, size) == <<first, Min(last, size - 1)>>

\* if (end_pointer > size - 1): end_pointer = size - 1
clamp_end(end_pointer, size) == IF end_pointer > size - 1 THEN size - 1 ELSE end_pointer

\* buffer_size = 150 * 1024 * 1024 in the code; here every size of 1 to
\* MaxFileLen blocks, for objects of 1 to MaxFileLen blocks
InitStream ==
    /\ \E v \in StreamVariants, size \in 1..MaxFileLen, buffer_size \in 1..MaxFileLen :
           dg = [variant |-> v, size |-> size, buffer_size |-> buffer_size, pc |-> "call",
                 current_pointer |-> 0, end_pointer |-> 0, counter |-> 0,
                 requests |-> <<>>, buffer |-> <<>>, written |-> <<>>, fed |-> <<>>,
                 parts |-> <<>>]
    /\ RunIdle

\* the head of both functions: the pointers, the size and the first read.
\* handle_s3_to_gcloud_transfer cuts end_pointer at the size before
\* get_object; handle_gcloud_to_s3_transfer calls download_as_string with
\* end_pointer as it is
StreamFirst ==
    /\ dg.pc = "call"
    /\ LET end_pointer == IF dg.variant = "s3_to_gcloud"
                          THEN clamp_end(dg.buffer_size - 1, dg.size)
                          ELSE dg.buffer_size - 1
       IN  dg' = [dg EXCEPT !.current_pointer = 0, !.end_pointer = end_pointer,
                            !.requests = <<<<0, end_pointer>>>>,
                            !.buffer = delivered(0, end_pointer, dg.size),
                            !.pc = IF dg.size <= dg.buffer_size THEN "single" ELSE "loop"]
    /\ UNCHANGED rvars

\* size <= buffer_size: the buffer is uploaded in one piece
\* (gcs_upload_from_string, aws_upload_from_string) and fed to crc32c
StreamSingle ==
    /\ dg.pc = "single"
    /\ dg' = [dg EXCEPT !.written = Append(@, dg.buffer), !.fed = Append(@, dg.buffer),
                        !.pc = "returned"]
    /\ UNCHANGED rvars

\* one pass of while (current_pointer < size): the buffer is written
\* (gcs_write_stream, or aws_upload_part with PartNumber = counter + 1) and
\* fed to crc32c, the pointers move on, and the next buffer is read when
\* current_pointer <= size - 1
StreamShard ==
    /\ dg.pc = "loop"
    /\ IF dg.current_pointer < dg.size
       THEN LET current_pointer == dg.current_pointer + dg.buffer_size
                end_pointer == clamp_end(dg.end_pointer + dg.buffer_size, dg.size)
                again == current_pointer <= dg.size - 1
            IN  dg' = [dg EXCEPT
                    !.written = Append(@, dg.buffer),
                    !.fed = Append(@, dg.buffer),
                    !.parts = IF dg.variant = "gcloud_to_s3" THEN Append(@, dg.counter + 1)
                              ELSE @,
                    !.current_pointer = current_pointer,
                    !.end_pointer = end_pointer,
                    !.requests = IF again THEN Append(@, <<current_pointer, end_pointer>>) ELSE @,
                    !.buffer = IF again THEN delivered(current_pointer, end_pointer, dg.size)
                               ELSE @,
                    !.counter = IF again THEN @ + 1 ELSE @]
       ELSE dg' = [dg EXCEPT !.pc = "returned"]
    /\ UNCHANGED rvars

NextStream == StreamFirst \/ StreamSingle \/ StreamShard

\* the function runs in one thread and every provider call returns
SpecStream == InitStream /\ [][NextStream]_vars /\ WF_vars(NextStream)

\* ------------------------------------------------------------------------
\* SpecDedup: upload_to_aws of process_directory.py applied to three rows
\* whose checksums are known, on a bucket that may hold an object of an
\* earlier session
\* ------------------------------------------------------------------------
\* path.split('/') of 's3://' + bucket_name + '/' + key: "s3:", the empty
\* text between the two slashes, the bucket and the segments of the key
split_path(path) == <<"s3:", "">> \o Tail(path)

\* segments[n], counted from 0
segment(segments, n) == segments[n + 1]

add_drs_uri_from_path_checksum(value, path) ==
    IF ~startswith(value.ga4gh_drs_uri, "drs://")
    THEN LET segments == split_path(path) IN
         [value EXCEPT !.guid = <<"dg.4503/", segment(segments, 3)>>,
                       !.ga4gh_drs_uri = <<"drs://", segment(segments, 3)>>]
    ELSE value

\* add_drs_uri_from_path(value, path)
add_drs_uri_from_path(value, path) ==
    IF ~startswith(value.ga4gh_drs_uri, "drs://")
    THEN LET segments == split_path(path) IN
         [value EXCEPT !.guid = <<"dg.4503/", segment(segments, 4)>>,
                       !.ga4gh_drs_uri = <<"drs://", segment(segments, 4)>>]
    ELSE value

\* add_aws_manifest_metadata(fields, response, path) of process_directory.py
add_aws_manifest_metadata_directory(fields, response, path) ==
    LET f1 == IF ~has_dash(response.etag) THEN [fields EXCEPT !.md5sum = response.etag]
              ELSE fields
        f2 == [f1 EXCEPT !.s3_path = path,
                         !.s3_modified_date = response.mtime,
                         !.s3_file_size = <<"int", Len(response.body)>>]
        f3 == IF Len(f2.md5sum) = 0
              THEN [f2 EXCEPT !.md5sum = hexdigest(md5(response.body))]
              ELSE f2
    IN  add_drs_uri_from_path(f3, path)

\* list(bucket.objects.filter(Prefix=path)) in the one bucket of the
\* session, and objs[0]: the listing is in key order, and keys under one
\* checksum differ first in the identifier segment
dedup_objs(path) == {o \in dg.s3 : is_prefix(path, o.key)}
first_obj(objs) == CHOOSE o \in objs : \A p \in objs : o.key[2][2] <= p.key[2][2]

dedup_row(i, path, body, uri) ==
    [input_file_path |-> path, body |-> body,
     s3_md5sum |-> calculate_s3_md5sum(body, 1), md5sum |-> <<>>,
     guid |-> IF uri = <<>> THEN <<>> ELSE <<"dg.4503/", uri[2]>>, ga4gh_drs_uri |-> uri,
     s3_path |-> <<>>, s3_modified_date |-> <<>>, s3_file_size |-> <<>>]

\* a row's identifier of an earlier session
old_uri(i) == <<"drs://", uuid4(100 + i)>>

\* the object an earlier session's row stored for the body
old_object(body) ==
    [bucket |-> <<"bkt">>, key |-> <<calculate_s3_md5sum(body, 1), uuid4(0), "h">>,
     body |-> body, etag |-> upload_etag(body, 1), mtime |-> <<"t", 0>>]

InitDedup ==
    /\ \E b2, b3 \in TransferBodies, u1, u2, u3 \in BOOLEAN, resume \in BOOLEAN :
       \E old \in SUBSET {old_object(<<0, 1>>)}, flt \in SUBSET {2} :
           dg = [variant |-> "upload_to_aws", pc |-> "row", i |-> 1, resume_mode |-> resume,
                 od |-> <<[dedup_row(1, <<"s3://", <<"src">>, "d1", "f">>, <<0, 1>>,
                                     IF u1 THEN old_uri(1) ELSE <<>>)
                               EXCEPT !.s3_path =
                                   IF resume /\ old # {}
                                   THEN s3_url(<<"bkt">>, old_object(<<0, 1>>).key)
                                   ELSE <<>>],
                          dedup_row(2, <<"s3://", <<"src">>, "d2", "g">>, b2,
                                    IF u2 THEN old_uri(2) ELSE <<>>),
                          dedup_row(3, <<"s3://", <<"src">>, "d3", "f">>, b3,
                                    IF u3 THEN old_uri(3) ELSE <<>>)>>,
                 s3 |-> old, faults |-> flt, uuids |-> 0,
                 written |-> <<>>, found |-> {}, stored |-> {}]
    /\ RunIdle

\* the head of the loop body of upload_to_aws: resume_mode and a row that
\* has its s3_path take the identifier from that path and continue
DedupRow ==
    /\ dg.variant = "upload_to_aws" /\ dg.pc = "row"
    /\ LET i == dg.i IN
       IF i > Len(dg.od) THEN dg' = [dg EXCEPT !.pc = "returned"]
       ELSE IF dg.resume_mode /\ startswith(dg.od[i].s3_path, "s3://")
       THEN dg' = [dg EXCEPT !.od[i] = add_drs_uri_from_path(@, @.s3_path), !.i = i + 1]
       ELSE dg' = [dg EXCEPT !.pc = "exists"]
    /\ UNCHANGED rvars

\* path_in_aws_bucket(bucket_name, value['s3_md5sum'], value) finds an
\* object: head_object and add_aws_manifest_metadata, then
\* update_manifest_file at the end of the loop body
PathInAwsBucket ==
    /\ dg.variant = "upload_to_aws" /\ dg.pc = "exists"
    /\ LET i == dg.i
           value == dg.od[i]
           objs == dedup_objs(<<value.s3_md5sum>>)
       IN  /\ objs # {}
           /\ LET o == first_obj(objs)
                  fields == add_aws_manifest_metadata_directory(value, o,
                                s3_url(o.bucket, o.key))
              IN  dg' = [dg EXCEPT !.od[i] = fields,
                                   !.found = @ \cup {<<i, o.key, value.ga4gh_drs_uri>>},
                                   !.written = [dg.od EXCEPT ![i] = fields],
                                   !.i = i + 1, !.pc = "row"]
    /\ UNCHANGED rvars

\* no object under the checksum: add_new_drs_uri, the key
\* s3_md5sum/identifier/file, the copy, head_object and
\* add_aws_manifest_metadata; a copy the provider rejects raises
\* ClientError, which the loop body catches. update_manifest_file follows
UploadNew ==
    /\ dg.variant = "upload_to_aws" /\ dg.pc = "exists"
    /\ LET i == dg.i
           value == dg.od[i]
           named == add_new_drs_uri(value, dg.uuids + 1)
           drawn_now == IF named.ga4gh_drs_uri # value.ga4gh_drs_uri THEN 1 ELSE 0
           drs_uri_in_path == named.ga4gh_drs_uri[2]
           s3_file == <<value.s3_md5sum, drs_uri_in_path, basename(value.input_file_path)>>
           o == [bucket |-> <<"bkt">>, key |-> s3_file, body |-> value.body,
                 etag |-> upload_etag(value.body, 1), mtime |-> <<"t", 1>>]
       IN  /\ dedup_objs(<<value.s3_md5sum>>) = {}
           /\ IF i \in dg.faults
              THEN dg' = [dg EXCEPT !.od[i] = named, !.uuids = @ + drawn_now,
                                    !.written = [dg.od EXCEPT ![i] = named],
                                    !.i = i + 1, !.pc = "row"]
              ELSE LET fields == add_aws_manifest_metadata_directory(named, o,
                                     s3_url(o.bucket, o.key))
                   IN  dg' = [dg EXCEPT !.od[i] = fields, !.uuids = @ + drawn_now,
                                        !.s3 = @ \cup {o},
                                        !.stored = @ \cup {<<i, s3_file>>},
                                        !.written = [dg.od EXCEPT ![i] = fields],
                                        !.i = i + 1, !.pc = "row"]
    /\ UNCHANGED rvars

NextDedup == DedupRow \/ PathInAwsBucket \/ UploadNew

SpecDedup == InitDedup /\ [][NextDedup]_vars

\* ------------------------------------------------------------------------
\* SpecSplit: split_manifest_file.py on manifests of 0 to MaxLines data
\* lines, with --num from 1 to MaxNum
\* ------------------------------------------------------------------------
MaxLines == 6
MaxNum == 4

\* write_chunk(file_str, header, part, lines): open('%s.%d', 'w') replaces
\* what the part file held
write_chunk_headless(files, header, part, lines) == (part :> lines) @@ files

write_chunk(files, header, part, lines) == (part :> (<<header>> \o lines)) @@ files

\* the manifest: a header line and L data lines, each with its own text
InitSplit ==
    /\ \E L \in 0..MaxLines, num \in 1..MaxNum :
           dg = [variant |-> "split_manifest_file", pc |-> "open", num |-> num,
                 tsv |-> <<"header">> \o [k \in 1..L |-> <<"line", k>>],
                 f |-> <<>>, header |-> "", count |-> 0, lines |-> <<>>,
                 files |-> <<>>, writes |-> <<>>]
    /\ RunIdle

\* open(args.tsv), count = 0, header = f.readline(), lines = []
SplitOpen ==
    /\ dg.variant = "split_manifest_file" /\ dg.pc = "open"
    /\ dg' = [dg EXCEPT !.header = Head(dg.tsv), !.f = Tail(dg.tsv), !.count = 0,
                        !.lines = <<>>, !.pc = "for"]
    /\ UNCHANGED rvars

\* one pass of for line in f, and after the last line the remainder
SplitLine ==
    /\ dg.variant = "split_manifest_file" /\ dg.pc = "for"
    /\ IF dg.f # <<>>
       THEN LET count == dg.count + 1
                lines == Append(dg.lines, Head(dg.f))
            IN  IF count % dg.num = 0
                THEN dg' = [dg EXCEPT
                         !.f = Tail(@), !.count = count, !.lines = <<>>,
                         !.files = write_chunk(@, dg.header, count \div dg.num, lines),
                         !.writes = Append(@, count \div dg.num)]
                ELSE dg' = [dg EXCEPT !.f = Tail(@), !.count = count, !.lines = lines]
       ELSE IF Len(dg.lines) > 0
       THEN dg' = [dg EXCEPT
                !.files = write_chunk(@, dg.header, (dg.count \div dg.num) + 1, dg.lines),
                !.writes = Append(@, (dg.count \div dg.num) + 1),
                !.pc = "returned"]
       ELSE dg' = [dg EXCEPT !.pc = "returned"]
    /\ UNCHANGED rvars

NextSplit == SplitOpen \/ SplitLine

SpecSplit == InitSplit /\ [][NextSplit]_vars

\* ------------------------------------------------------------------------
\* SpecUploads: one invocation of process_localdir_to_aws.py on two local
\* files with pools of up to NumThreads threads, where the bucket may hold
\* the first file already and the provider may reject the second
\* ------------------------------------------------------------------------
InitUploads ==
    \E n \in 1..NumThreads, b1, b2 \in LocaldirBodies, held1 \in BOOLEAN :
    \E flt \in {{}, {<<"/", "d2", "g">>}} :
        /\ DigestIdle
        /\ variant = "process_localdir_to_aws"
        /\ args = [aws |-> TRUE, gs |-> FALSE, test |-> FALSE, resume |-> FALSE, threads |-> n,
                   chunk_size |-> 2, bucket |-> <<"bkt">>, directory |-> <<>>]
        /\ fs = (<<"/", "d1", "f">> :> b1) @@ (<<"/", "d2", "g">> :> b2)
        /\ tsv = <<header_row, input_row("s1", "c1", <<"/", "d1", "f">>),
                   input_row("s1", "c1", <<"/", "d2", "g">>)>>
        /\ od = <<>>
        /\ out_file = no_file
        /\ pc = [t \in 0..n |-> IF t = 0 THEN "main" ELSE "idle"]
        /\ wrow = [t \in 0..n |-> 0]
        /\ wk = [t \in 0..n |-> 0]
        /\ ret = [t \in 0..n |-> ""]
        /\ queue = <<>>
        /\ held = {}
        /\ s3 = IF held1
                THEN {[bucket |-> <<"bkt">>, key |-> <<"/", "d1", "f">>, body |-> b1,
                       etag |-> upload_etag(b1, 2), mtime |-> <<"t", 0>>]}
                ELSE {}
        /\ gcs = {}
        /\ gs_crc32c = <<>>
        /\ uploads = no_uploads
        /\ tmpfiles = {}
        /\ futures = {}
        /\ faults = flt
        /\ corrupt = {}
        /\ buckets = <<>>
        /\ aws_buckets = <<>>
        /\ gs_buckets = <<>>
        /\ run = 1
        /\ status = ""
        /\ hist = HistInit

NextUploads ==
    \/ ReadAndVerifyLocaldir
    \/ SubmitAwsChecksums
    \/ \E t \in Workers : TakeTask(t) \/ CalcS3Localdir(t) \/ HandleAwsFileUpload(t)
    \/ JoinAwsChecksums
    \/ \E t \in DOMAIN pc : update_manifest_file(t)
    \/ CategorizeFile
    \/ SubmitRegular \/ JoinRegular \/ SubmitMultipart \/ JoinMultipart
    \/ Final \/ Close

SpecUploads == InitUploads /\ [][NextUploads]_vars

\* ------------------------------------------------------------------------
\* SpecPhases: one invocation of process.py with --gs, with --aws or with
\* both, on two local files
\* ------------------------------------------------------------------------
InitPhases ==
    \E n2 \in FileNameChoices, b2 \in TransferBodies, c2 \in ConsentChoices :
    \E aws, gs \in BOOLEAN :
    /\ aws \/ gs
    /\ buckets = <<>>
    /\ corrupt = {}
    /\ TransferSetup("process",
           [aws |-> aws, gs |-> gs, test |-> FALSE, resume |-> FALSE, threads |-> 1,
            chunk_size |-> 1, bucket |-> <<>>, directory |-> <<>>],
           (<<"/", "d1", "f">> :> <<0, 1>>) @@ (<<"/", "d2", n2>> :> b2),
           <<input_row("s1", "c1", <<"/", "d1", "f">>), input_row("s1", c2, <<"/", "d2", n2>>)>>,
           {}, {}, {})

NextPhases ==
    \/ ReadAndVerify
    \/ SubmitAwsChecksums \/ SubmitGsChecksums
    \/ \E t \in Workers : TakeTask(t) \/ CalcS3(t) \/ CalcGs(t)
    \/ JoinAwsChecksums \/ JoinGsChecksums
    \/ \E t \in DOMAIN pc : update_manifest_file(t)
    \/ UploadAwsBegin \/ UploadAwsTransfer \/ UploadAwsHead
    \/ UploadGsBegin \/ UploadGsTransfer
    \/ Final \/ Close

SpecPhases == InitPhases /\ [][NextPhases]_vars

\* ------------------------------------------------------------------------
\* SpecFinish: process.py --aws or --gs run to its end, on sources of every
\* kind, with rejected transfers and --resume runs, and no signal
\* ------------------------------------------------------------------------
InitFinish == ProcessSetup({1, 2}) /\ buckets = <<>> /\ corrupt = {}

NextFinish ==
    \/ ReadAndVerify
    \/ SubmitAwsChecksums \/ SubmitGsChecksums
    \/ \E t \in Workers : TakeTask(t) \/ CalcS3(t) \/ CalcGs(t)
    \/ JoinAwsChecksums \/ JoinGsChecksums
    \/ \E t \in DOMAIN pc : update_manifest_file(t)
    \/ UploadAwsBegin \/ UploadAwsTransfer \/ UploadAwsHead
    \/ UploadGsBegin \/ UploadGsTransfer
    \/ Final \/ Close
    \/ NextRun(1 + MaxResumes)

\* a step of upload_to_aws or upload_to_gcloud, update_manifest_file as
\* they call it included
TransferStep ==
    \/ UploadAwsBegin \/ UploadAwsTransfer \/ UploadAwsHead
    \/ UploadGsBegin \/ UploadGsTransfer
    \/ update_manifest_file(0)

\* the main thread runs the loop statement after statement, and every
\* provider call returns or raises
SpecFinish == InitFinish /\ [][NextFinish]_vars /\ WF_vars(TransferStep)

\* ------------------------------------------------------------------------
\* process_dicom_in_gcs.py: main. The functions it imports from bdcat_ingest
\* are modelled by what main uses them for
\* ------------------------------------------------------------------------
\* get_bucket_name(args.study_id, args.consent_group)
upload_gcs_bucket_name == <<"s1", "c1">>

\* gcs_bucket_writeable(upload_gcs_bucket_name)
gcs_bucket_writeable(bucket_name) == bucket_state(bucket_name) = "allowed"

\* row.keys() of a row built by get_file_metadata_for_file_path
BaseKeys == <<"study_id", "consent_group", "input_file_path", "file_name", "file_size",
              "guid", "ga4gh_drs_uri", "md5sum", "gs_crc32c", "gs_path",
              "gs_modified_date", "gs_file_size", "s3_md5sum", "s3_path",
              "s3_modified_date", "s3_file_size">>

\* the additional fields for dicom files, in the order they are assigned
DicomKeys == <<"intermediate_file_name", "dicom_stack", "nifti_file_name",
               "metadata_file_name", "participant_id", "SeriesDescription",
               "StudyInstanceUID", "SeriesInstanceUID", "StudyDate", "ConvolutionKernel",
               "Manufacturer", "ManufacturerModelName", "SliceThickness",
               "ReconstructionDiameter">>

ExtraNames == {DicomKeys[k] : k \in 1..Len(DicomKeys)} \cup {"file_type"}

\* a python dict whose keys go beyond the manifest columns: keys is
\* row.keys() in insertion order, extra holds the values of the other keys
has_key(row, k) == \E n \in 1..Len(row.keys) : row.keys[n] = k
dict_get(row, k) == IF k \in FieldNames THEN row[k] ELSE row.extra[k]
dict_set(row, k, v) ==
    LET r == IF k \in FieldNames THEN [row EXCEPT ![k] = v]
             ELSE [row EXCEPT !.extra = [@ EXCEPT ![k] = v]]
    IN  IF has_key(row, k) THEN r ELSE [r EXCEPT !.keys = Append(@, k)]

\* get_file_metadata_for_file_path(path, study_id, consent_group)
get_file_metadata_for_file_path(path) ==
    [f \in FieldNames \cup {"keys", "extra"} |->
        IF f = "keys" THEN BaseKeys
        ELSE IF f = "extra" THEN [k \in ExtraNames |-> <<>>]
        ELSE IF f = "file_name" THEN path
        ELSE input_row("s1", "c1", path)[f]]

\* row[k] = '' for each of the additional fields, intermediate_file_name
\* being the file name
add_dicom_fields(row) ==
    [row EXCEPT !.keys = @ \o DicomKeys,
                !.extra = [@ EXCEPT !["intermediate_file_name"] = row.file_name]]

\* get_dicom_file_metadata_for_file_path(metadata_file_name, ...)
get_dicom_file_metadata_for_file_path(path) ==
    add_dicom_fields(get_file_metadata_for_file_path(path))

\* name.replace('gs://', '', 1), os.path.dirname, os.path.splitext
strip_scheme(path) == IF startswith(path, "gs://") \/ startswith(path, "s3://")
                      THEN <<"">> \o Tail(path) ELSE path
dirname(path) == SubSeq(path, 1, Len(path) - 1)
is_dcm(path) == basename(path) = "f.dcm"

\* generate_dict_from_gcs_bucket_for_dicom(args.gcs_bucket, ...): one row for
\* the object of the bucket, with the dicom fields; a .dcm file is typed and
\* names its stack, its nifti file and its metadata file
dicom_row(row) ==
    LET curr_file_name == strip_scheme(row.file_name)
        r0 == [add_dicom_fields(row) EXCEPT
                   !.extra = [@ EXCEPT !["intermediate_file_name"] = curr_file_name]]
        r1 == dict_set(r0, "file_type", <<"DICOM">>)
        r2 == dict_set(r1, "dicom_stack", dirname(curr_file_name))
        r3 == dict_set(r2, "nifti_file_name", dirname(curr_file_name) \o <<".nii">>)
    IN  IF is_dcm(curr_file_name)
        THEN dict_set(r3, "metadata_file_name", dirname(curr_file_name) \o <<".tsv">>)
        ELSE r0

generate_dict_from_gcs_bucket_for_dicom(bucket_name) ==
    IF \E o \in gcs : o.bucket = bucket_name
    THEN LET o == CHOOSE x \in gcs : x.bucket = bucket_name
         IN  <<dicom_row([get_file_metadata_for_file_path(<<"gs://", bucket_name>> \o o.name)
                              EXCEPT !.gs_crc32c = crc32c_b64(o.body)])>>
    ELSE <<>>

\* get_dicom_stacks_for_value(od, value): the rows that name a stack and a
\* value for it
get_dicom_stacks_for_value(rows, value) ==
    {i \in 1..Len(rows) : /\ has_key(rows[i], "dicom_stack")
                          /\ dict_get(rows[i], "dicom_stack") # <<>>
                          /\ has_key(rows[i], value)
                          /\ dict_get(rows[i], value) # <<>>}

\* generate_dicom_stack_metadata_files(od, ...): the row of the stack's
\* metadata file is added to od
generate_dicom_stack_metadata_files(rows) ==
    IF get_dicom_stacks_for_value(rows, "metadata_file_name") = {} THEN rows
    ELSE LET i == CHOOSE x \in get_dicom_stacks_for_value(rows, "metadata_file_name") : TRUE
             metadata_row == get_dicom_file_metadata_for_file_path(
                                 dict_get(rows[i], "metadata_file_name"))
         IN  Append(rows, dict_set(dict_set(metadata_row, "file_type", <<"TSV">>),
                                   "dicom_stack", dict_get(rows[i], "dicom_stack")))

\* generate_nifti_files(od, ...): the row of the stack's nifti file is added
\* to od
generate_nifti_files(rows) ==
    IF get_dicom_stacks_for_value(rows, "nifti_file_name") = {} THEN rows
    ELSE LET i == CHOOSE x \in get_dicom_stacks_for_value(rows, "nifti_file_name") : TRUE
             nifti_row == get_file_metadata_for_file_path(dict_get(rows[i], "nifti_file_name"))
         IN  Append(rows, dict_set(dict_set(nifti_row, "file_type", <<"NIFTI">>),
                                   "dicom_stack", dict_get(rows[i], "dicom_stack")))

\* tsv_writer.writerow(row.values()): every cell with the key it is the
\* value of
dicom_line(row) == [k \in 1..Len(row.keys) |-> <<row.keys[k], str_field(dict_get(row, row.keys[k]))>>]

\* update_dicom_manifest_file(f, od): the keys of the first row, then the
\* rows that have a file type other than DICOM
RECURSIVE dicom_lines(_)
dicom_lines(rows) ==
    IF Len(rows) = 0 THEN <<>>
    ELSE LET row == rows[Len(rows)]
             before == dicom_lines(SubSeq(rows, 1, Len(rows) - 1))
         IN  IF has_key(row, "file_type") /\ dict_get(row, "file_type") # <<"DICOM">>
             THEN Append(before, dicom_line(row)) ELSE before

update_dicom_manifest_file(f, rows) ==
    LET lines == IF Len(rows) = 0 THEN <<>> ELSE <<rows[1].keys>> \o dicom_lines(rows)
    IN  [f EXCEPT !.lines = lines, !.pos = Len(lines)]

\* upload_from_localdisk_to_gcs_bucket(args.gcs_bucket + '/dicom', bucket):
\* the objects the upload stores
upload_from_localdisk_to_gcs_bucket(from_bucket, to_bucket) ==
    {[bucket |-> to_bucket, name |-> o.name, body |-> o.body,
      updated |-> <<"t", run>>, has_md5 |-> TRUE] : o \in {x \in gcs : x.bucket = from_bucket}}

\* main() up to the first update_dicom_manifest_file: the bucket check, the
\* dict, the receipt manifest. args.test is parsed and never read
DicomMain ==
    /\ Running /\ pc[0] = "main" /\ variant = "process_dicom_in_gcs"
    /\ hist' = [hist EXCEPT !.probes = probe(hist.probes, "gs", upload_gcs_bucket_name)]
    /\ IF ~gcs_bucket_writeable(upload_gcs_bucket_name)
       THEN /\ status' = "exit_validation"
            /\ UNCHANGED <<od, out_file, pc>>
       ELSE /\ od' = generate_dict_from_gcs_bucket_for_dicom(args.bucket)
            /\ out_file' = update_dicom_manifest_file(
                               [lines |-> <<>>, pos |-> 0, open |-> TRUE, created |-> TRUE], od')
            /\ pc' = [pc EXCEPT ![0] = "dicom_metadata"]
            /\ UNCHANGED status
    /\ UNCHANGED <<cvars, futures, uploads, tmpfiles, wrow, wk, ret, queue, held, s3, gcs, gs_crc32c>>

\* generate_dicom_stack_metadata_files and update_dicom_manifest_file
DicomMetadata ==
    /\ Running /\ pc[0] = "dicom_metadata"
    /\ od' = generate_dicom_stack_metadata_files(od)
    /\ out_file' = update_dicom_manifest_file(out_file, od')
    /\ pc' = [pc EXCEPT ![0] = "dicom_nifti"]
    /\ UNCHANGED <<cvars, futures, uploads, tmpfiles, status, wrow, wk, ret, queue, held, s3, gcs,
                   gs_crc32c, hist>>

\* generate_nifti_files and update_dicom_manifest_file
DicomNifti ==
    /\ Running /\ pc[0] = "dicom_nifti"
    /\ od' = generate_nifti_files(od)
    /\ out_file' = update_dicom_manifest_file(out_file, od')
    /\ pc' = [pc EXCEPT ![0] = "dicom_upload"]
    /\ UNCHANGED <<cvars, futures, uploads, tmpfiles, status, wrow, wk, ret, queue, held, s3, gcs,
                   gs_crc32c, hist>>

\* the content of a file on the local disk: a downloaded object, or a file
\* the run generated
localdisk_body(path) == IF startswith(path, "gs://") THEN source_body(path) ELSE <<0>>

\* the rest of main(): the guid and checksum steps, each followed by
\* update_dicom_manifest_file, the upload, the manifest upload, exit()
DicomUpload ==
    /\ Running /\ pc[0] = "dicom_upload"
    /\ gcs' = gcs \cup upload_from_localdisk_to_gcs_bucket(args.bucket, upload_gcs_bucket_name)
    /\ od' = [i \in 1..Len(od) |->
                 [od[i] EXCEPT !.gs_path = <<"gs://", upload_gcs_bucket_name>>
                                              \o SubSeq(od[i].input_file_path, 3,
                                                        Len(od[i].input_file_path)),
                               !.gs_modified_date = <<"t", run>>,
                               !.gs_file_size = <<"int", Len(localdisk_body(od[i].input_file_path))>>]]
    /\ out_file' = [update_dicom_manifest_file(out_file, od') EXCEPT !.open = FALSE]
    /\ hist' = [hist EXCEPT !.calls = @ \cup {<<"transfer", i>> : i \in 1..Len(od)}]
    /\ status' = "done"
    /\ UNCHANGED <<cvars, futures, uploads, tmpfiles, pc, wrow, wk, ret, queue, held, s3, gs_crc32c>>

\* ------------------------------------------------------------------------
\* SpecValidate: one invocation of each script on inputs that validation may
\* refuse: unreadable sources, buckets that are missing or not writeable,
\* --test, no provider flag
\* ------------------------------------------------------------------------
\* what can be wrong with a bucket: the principal may not write to it, it
\* does not exist, the authorization service cannot be reached; a bucket of
\* provider B may also vanish between get_bucket and bucket.exists()
BucketStates == {"denied", "missing", "unreachable"}
BucketFaults(names) == UNION {[S -> BucketStates] : S \in SUBSET names}
Providers == {"aws", "gs", "none"}

\* the sources of srcs that can be read
readable(srcs, present) == {x \in srcs : present[x.dir]}

InitValidateProcess ==
    \E provider \in Providers, test \in BOOLEAN, k2 \in SourceKinds, c2 \in ConsentChoices :
    \E present \in [{"d1", "d2"} -> BOOLEAN] :
    LET x1 == [kind |-> "/", dir |-> "d1", name |-> "f", body |-> <<0, 1>>,
               etag |-> hexdigest(md5(<<0, 1>>))]
        x2 == [kind |-> k2, dir |-> "d2", name |-> "g", body |-> <<1>>,
               etag |-> hexdigest(md5(<<1>>))]
        rows == <<input_row("s1", "c1", source_path("/", "d1", "f")),
                  input_row("s1", c2, source_path(k2, "d2", "g"))>>
        srcs == readable({x1, x2}, present)
        names == {get_bucket_name(rows[1]), get_bucket_name(rows[2])}
    IN  /\ \E bf \in BucketFaults(names), gone \in SUBSET names :
               /\ provider # "gs" => gone = {}
               /\ buckets = [b \in gone |-> "vanished"] @@ bf
        /\ corrupt \in {{}, {source_path("/", "d1", "f")}}
        /\ \E flt \in {{}, {source_path(k2, "d2", "g")}} :
               TransferSetup("process",
                   [aws |-> provider = "aws", gs |-> provider = "gs", test |-> test,
                    resume |-> FALSE, threads |-> 1, chunk_size |-> 1,
                    bucket |-> <<>>, directory |-> <<>>],
                   local_files(srcs), rows, s3_sources(srcs), gs_sources(srcs), flt)

InitValidateDirectory ==
    \E provider \in Providers, test \in BOOLEAN, k2 \in SourceKinds :
    \E present \in [{"f", "g"} -> BOOLEAN] :
    LET names == IF k2 = "/" THEN {"f", "g"} ELSE {"f"}
        files == {<<"/", "dir", n>> : n \in {m \in names : present[m]}}
        x2 == [kind |-> k2, dir |-> "d2", name |-> "g", body |-> <<1>>,
               etag |-> hexdigest(md5(<<1>>))]
        srcs == IF k2 # "/" /\ present["g"] THEN {x2} ELSE {}
        p2 == IF k2 = "/" THEN <<"g">> ELSE source_path(k2, "d2", "g")
    IN
    /\ buckets \in BucketFaults({<<"bkt">>})
    /\ corrupt \in {{}, {<<"f">>}}
    /\ \E flt \in {{}, {<<"f">>}} :
        TransferSetup("process_directory",
            [aws |-> provider = "aws", gs |-> provider = "gs", test |-> test, resume |-> FALSE,
             threads |-> 1, chunk_size |-> 1, bucket |-> <<"bkt">>,
             directory |-> <<"/", "dir">>],
            [p \in files |-> <<0, 1>>],
            <<input_row("s1", "c1", <<"f">>), input_row("s1", "c1", p2)>>,
            s3_sources(srcs), gs_sources(srcs), flt)

InitValidateLocaldir ==
    \E test \in BOOLEAN, b2 \in LocaldirBodies :
    \E present \in [{"d1", "d2"} -> BOOLEAN] :
    \E row2 \in {input_row("s1", "c1", <<"/", "d2", "f">>),
                 input_row("s2", "c1", <<"/", "d1", "f">>)} :
    LET files == {<<"/", d, "f">> : d \in {m \in {"d1", "d2"} : present[m]}} IN
    /\ buckets \in BucketFaults({<<"bkt">>})
    /\ corrupt \in {{}, {<<"/", "d1", "f">>}}
    /\ \E flt \in {{}, {<<"/", "d2", "f">>}} :
        TransferSetup("process_localdir_to_aws",
            [aws |-> TRUE, gs |-> FALSE, test |-> test, resume |-> FALSE, threads |-> 1,
             chunk_size |-> 2, bucket |-> <<"bkt">>, directory |-> <<>>],
            [p \in files |-> IF p[2] = "d1" THEN <<0, 1>> ELSE b2],
            <<input_row("s1", "c1", <<"/", "d1", "f">>), row2>>,
            {}, {}, flt)

InitValidateDicom ==
    \E test \in BOOLEAN, name \in {"f.dcm", "g"} :
    /\ buckets \in UNION {[S -> {"denied", "missing"}] : S \in SUBSET {upload_gcs_bucket_name}}
    /\ corrupt = {}
    /\ TransferSetup("process_dicom_in_gcs",
           [aws |-> FALSE, gs |-> TRUE, test |-> test, resume |-> FALSE, threads |-> 1,
            chunk_size |-> 1, bucket |-> <<"src">>, directory |-> <<>>],
           <<>>, <<>>, {},
           gs_sources({[kind |-> "gs://", dir |-> "dicom", name |-> name,
                        body |-> <<0, 1>>]}),
           {})

InitValidate ==
    InitValidateProcess \/ InitValidateDirectory \/ InitValidateLocaldir \/ InitValidateDicom

NextValidate ==
    \/ ReadAndVerify \/ ReadAndVerifyDirectory \/ ReadAndVerifyLocaldir
    \/ SubmitAwsChecksums \/ SubmitGsChecksums
    \/ \E t \in Workers : TakeTask(t) \/ CalcS3(t) \/ CalcGs(t) \/ CalcS3Localdir(t)
                            \/ CalcGsDirectory(t)
    \/ JoinAwsChecksums \/ JoinGsChecksums
    \/ \E t \in DOMAIN pc : update_manifest_file(t)
    \/ UploadAwsBegin \/ UploadAwsTransfer \/ UploadAwsHead
    \/ UploadGsBegin \/ UploadGsTransfer
    \/ RsyncDirectory \/ VerifyGcloudUpload
    \/ CategorizeFile \/ SubmitRegular \/ JoinRegular \/ SubmitMultipart \/ JoinMultipart
    \/ \E t \in Workers : HandleAwsFileUpload(t)
    \/ DicomMain \/ DicomMetadata \/ DicomNifti \/ DicomUpload
    \/ Final \/ Close
    \/ InterruptBetweenRows

SpecValidate == InitValidate /\ [][NextValidate]_vars

\* ---- the manifest rewrite under the worker pool ----
\* C1: at most one thread at a time is inside the seek/truncate/write
\* section of update_manifest_file.
C1_PersistMutex == Cardinality(InPersist) <= 1

\* the lines are one header followed by exactly one line per row of rows
WellFormed(lines, rows) ==
    /\ Len(lines) = Len(rows) + 1
    /\ lines[1] = header_row
    /\ \A i \in 1..Len(rows) :
           Cardinality({j \in 2..Len(lines) :
               lines[j].input_file_path = rows[i].input_file_path}) = 1

\* C2: once every update_manifest_file call of the worker pool has returned,
\* the manifest file holds one header line followed by exactly one line per
\* manifest row.
C2_PoolLeavesWellFormed ==
    (Running /\ pc[0] = "up_aws" /\ wrow[0] = 1 /\ hist.persist_begun)
        => WellFormed(out_file.lines, od)

\* C3: in every state after the first Persist has begun, also inside a
\* Persist call, the manifest file is the header plus one full line for
\* every row of the in-memory row set.
C3_AlwaysSnapshot ==
    (hist.persist_begun /\ Len(od) > 0) => WellFormed(out_file.lines, od)

\* ---- interrupt and resume ----
\* the row an uninterrupted run of process.py --aws leaves for a local file
uninterrupted_row(line) ==
    LET path == line.input_file_path
        tag == calculate_s3_md5sum(fs[path], args.chunk_size)
    IN  /\ line.s3_md5sum = tag
        /\ line.md5sum = hexdigest(md5(fs[path]))
        /\ line.s3_path = s3_url(line.study_id \o line.consent_group, <<tag, basename(path)>>)
        /\ line.s3_file_size = <<"dec", Len(fs[path])>>

\* the manifest is the one an uninterrupted run over the inputs produces:
\* a header and one line per input file with its digests, path and size
EquivalentToUninterrupted(lines) ==
    /\ Len(lines) = NumRows + 1
    /\ lines[1] = header_row
    /\ {lines[j].input_file_path : j \in 2..Len(lines)} = DOMAIN fs
    /\ \A j \in 2..Len(lines) : uninterrupted_row(lines[j])

\* an uninterrupted first run ends with that manifest
UninterruptedRun ==
    (run = 1 /\ status = "done") => EquivalentToUninterrupted(out_file.lines)

\* C8: a run interrupted after K of N rows were transferred and re-run with
\* --resume on the manifest it left ends with a manifest equivalent to the
\* one of an uninterrupted run.
C8_ResumeEquivalent ==
    (/\ run = 2 /\ status \notin {"", "interrupted"}
     /\ hist.prev_status = "interrupted" /\ hist.prev_int_at = "up_aws")
        => (status = "done" /\ EquivalentToUninterrupted(out_file.lines))

\* ---- resume-skip ----
\* the requests the transfer step can issue for a row
TransferOps == {"exists", "head", "download", "transfer"}

\* the row's destination path for the target provider is populated
target_populated(row) ==
    \/ args.aws /\ startswith(row.s3_path, "s3://")
    \/ args.gs /\ startswith(row.gs_path, "gs://")

DestinationFields == {"s3_path", "s3_file_size", "s3_modified_date",
                      "gs_path", "gs_file_size", "gs_modified_date"}

same_bytes(i, j) ==
    /\ i < j
    /\ od[i].input_file_path # od[j].input_file_path
    /\ source_body(od[i].input_file_path) = source_body(od[j].input_file_path)

digest_computed(row) == ~startswith(row.input_file_path, "s3://")

C9_ResumeIdempotent ==
    (status = "done" /\ args.resume /\ hist.prev_status = "done" /\ hist.prev_resume) =>
        out_file.lines = hist.prev

\* ---- identifier fields ----
\* C10: within a run, a row's guid and ga4gh_drs_uri change only from empty
\* to a value generated from a new uuid; once they hold a value no step
\* changes them.
C10_AssignedOnce ==
    [][run' = run =>
        \A i \in 1..Len(od) :
            i <= Len(od') =>
                /\ od[i].guid # <<>> => od'[i].guid = od[i].guid
                /\ od[i].ga4gh_drs_uri # <<>> => od'[i].ga4gh_drs_uri = od[i].ga4gh_drs_uri
                /\ (od[i].guid = <<>> /\ od'[i].guid # <<>>) =>
                       /\ od'[i].guid = <<"dg.4503/", uuid4(hist.uuids + 1)>>
                       /\ od'[i].ga4gh_drs_uri = <<"drs://", uuid4(hist.uuids + 1)>>
                       /\ hist'.uuids = hist.uuids + 1]_vars

C10_Witness ==
    /\ variant = "process_localdir_to_aws" /\ args.resume /\ status = "done" /\ Len(od) = 2
    /\ \E i, j \in 1..Len(od) :
           /\ hist.loaded[i].guid # <<>> /\ od[i].guid = hist.loaded[i].guid
           /\ hist.loaded[j].guid = <<>> /\ od[j].guid # <<>>

\* ---- identifiers of rows whose object is already stored ----
\* the destination object of row i was stored by an earlier invocation
stored_earlier(i) ==
    \/ /\ variant = "process_localdir_to_aws"
       /\ \E o \in objects_filter(args.bucket, od[i].input_file_path) :
              checksum_check(od[i], o) /\ o.mtime[2] < run
    \/ /\ variant = "process_directory"
       /\ \E o \in gcs : /\ o.bucket = args.bucket
                         /\ o.name = in_directory(od[i].input_file_path)
                         /\ o.updated[2] < run

\* C11: a row whose destination object already exists at a known path never
\* gets its identifier from a new random draw: no step gives such a row a
\* guid built from a newly drawn uuid.
C11_NoDrawForStoredRow ==
    [][run' = run =>
        \A i \in 1..Len(od) :
            (i <= Len(od') /\ stored_earlier(i) /\ od'[i].guid # od[i].guid) =>
                hist'.uuids = hist.uuids]_vars

\* ---- validation ----
\* the buckets the invocation is to write to
target_buckets ==
    IF variant = "process" THEN {get_bucket_name(reader_rows[i]) : i \in 1..Len(reader_rows)}
    ELSE IF variant = "process_dicom_in_gcs" THEN {upload_gcs_bucket_name}
    ELSE {args.bucket}

unwritable_target == \E b \in target_buckets : bucket_state(b) \notin {"allowed", "vanished"}

\* objects stored by the current invocation
stored_now == {o \in s3 : o.mtime = <<"t", run>>} \cup {o \in gcs : o.updated = <<"t", run>>}

\* no checksum work has been submitted or done, no request of the transfer
\* step has been issued and no object stored
no_work_begun ==
    /\ pc[0] = "main" /\ \A t \in Workers : pc[t] = "idle"
    /\ queue = <<>>
    /\ hist.calls = {}
    /\ stored_now = {}

\* the invocation has not gone past validation, and there is no receipt
\* manifest
only_validated == no_work_begun /\ ~out_file.created

\* C12: when a target bucket is not writeable, the run never gets past
\* validation: no checksum is computed, nothing is transferred and no
\* receipt manifest file is created.
C12_UnwritableBucketAborts == unwritable_target => only_validated

\* a run that validation ended because of a bucket alone: every source was
\* readable and the provider was asked about the bucket
C12_Witness ==
    /\ status = "exit_validation" /\ unwritable_target
    /\ variant = "process" /\ args.gs
    /\ Len(od) = 2
    /\ \A i \in 1..Len(od) : od[i].input_file_path \in DOMAIN fs
    /\ hist.probes # <<>>

\* C13: the writability answer is kept per bucket name for the whole run:
\* the provider is asked at most once about each bucket, whatever the
\* first answer was.
C13_ProbedOncePerBucket == \A k \in DOMAIN hist.probes : hist.probes[k] <= 1

\* ---- failures during the transfer step ----
\* C14: a provider or transfer failure on a row of process.py is caught for
\* that row alone: it never ends the script inside the transfer step, and
\* the row's destination fields stay empty.
C14_FailureContained ==
    variant = "process" =>
        /\ status = "crashed" => pc[0] \notin {"up_aws_exists", "up_gs_exists"}
        /\ \A i \in 1..Len(od) :
               (od[i].input_file_path \in faults /\ <<"exists", i>> \in hist.calls)
                   => ~target_populated(od[i])

\* C15: in a phase run by a thread pool, a work item that raises is caught
\* and logged: the other work items run and the script goes on with the
\* next phase; it never ends because of a stored exception.
C15_UnitFailureContained == futures # {} => status # "crashed"

\* the provider has been asked about the bucket
probed(bucket_name) == \E k \in DOMAIN hist.probes : k[2] = bucket_name

\* C16: when validation ends the run, every row of the input manifest has
\* been checked and every target bucket has been asked about: validation
\* does not stop at the first failure.
C16_ValidationAggregated ==
    status = "exit_validation" =>
        /\ \A i \in 1..Len(reader_rows) :
               \E j \in 1..Len(od) : od[j].input_file_path = reader_rows[i].input_file_path
        /\ \A b \in target_buckets : probed(b)

\* the source a row of the input manifest names cannot be read
unreadable(row) ==
    LET path == row.input_file_path IN
    IF variant = "process_directory" THEN in_directory(path) \notin DOMAIN fs
    ELSE IF startswith(path, "gs://") THEN gs_blob(path) = {}
    ELSE IF startswith(path, "s3://") THEN s3_obj(path) = {}
    ELSE path \notin DOMAIN fs

unreadable_source == \E i \in 1..Len(reader_rows) : unreadable(reader_rows[i])

\* C17: when a source of the input manifest is unreadable, the run never
\* gets past validation: no checksum is computed and no transfer starts.
C17_UnreadableSourceAborts == unreadable_source => no_work_begun

\* C18: the exit status is 1 when the run ends on a validation failure, a
\* missing provider flag or a trapped signal, and 0 when it completes.
C18_ExitStatus ==
    /\ status \in {"exit_validation", "exit_args", "interrupted"} => exit_status = 1
    /\ status = "done" => exit_status = 0

\* ---- trapped signals ----
\* C19: when a signal is trapped after the checksum pool has returned (so
\* that update_manifest_file calls have completed), the handler exits with
\* status 1 and the manifest file it leaves is a complete snapshot: the
\* header and one line per row, whatever the main thread was doing.
C19_InterruptLeavesSnapshot ==
    (/\ status = "interrupted" /\ hist.persist_begun /\ Len(od) > 0
     /\ hist.int_at \notin {"main", "aws_checksums", "aws_wait"})
        => (exit_status = 1 /\ WellFormed(out_file.lines, od))

\* ---- test mode ----
\* C20: with --test every script validates and exits: no checksum phase
\* runs, nothing is uploaded, copied or downloaded, and no receipt manifest
\* is written.
C20_TestOnlyValidates == args.test => only_validated

\* ---- remote-location groups ----
\* the path, modified-date and size fields of one provider are all empty or
\* all filled
group_whole(row, prefix) ==
    LET g == IF prefix = "s3" THEN {"s3_path", "s3_modified_date", "s3_file_size"}
             ELSE {"gs_path", "gs_modified_date", "gs_file_size"}
    IN  (\A f \in g : row[f] = <<>>) \/ (\A f \in g : row[f] # <<>>)

\* C21: in every state and in every line of the manifest file, a row's
\* remote-location group of a provider is fully populated or fully empty
\* (the lines of the dicom receipt are cells of od's rows).
C21_GroupWhole ==
    /\ \A i \in 1..Len(od) : group_whole(od[i], "s3") /\ group_whole(od[i], "gs")
    /\ variant # "process_dicom_in_gcs" =>
           \A j \in 1..Len(out_file.lines) :
               group_whole(out_file.lines[j], "s3") /\ group_whole(out_file.lines[j], "gs")

\* ---- digest fields ----
DigestFields == {"md5sum", "s3_md5sum", "gs_crc32c"}

\* C22: within a run, a digest field of a row that holds a value is never
\* given another value by a later step.
C22_DigestWrittenOnce ==
    [][run' = run =>
        \A i \in 1..Len(od) :
            i <= Len(od') =>
                \A f \in DigestFields : od[i][f] # <<>> => od'[i][f] = od[i][f]]_vars

\* ---- checksum comparison after a transfer ----
\* the run writes to provider A
aws_target == variant = "process_localdir_to_aws" \/ (variant = "process" /\ args.aws)

\* the object of provider A the transfer of row i stored in this run
stored_s3(i) ==
    {o \in s3 : /\ o.mtime = <<"t", run>>
                /\ IF variant = "process"
                   THEN o.bucket = get_bucket_name(od[i]) /\ o.key = s3_file_of(od[i])
                   ELSE o.bucket = args.bucket /\ o.key = od[i].input_file_path}

\* the object of provider B the transfer of row i stored in this run
stored_gs(i) ==
    {o \in gcs : /\ o.updated = <<"t", run>>
                 /\ IF variant = "process"
                    THEN /\ od[i].input_file_path \in DOMAIN gs_crc32c
                         /\ o.bucket = get_bucket_name(od[i])
                         /\ o.name = <<gs_crc32c[od[i].input_file_path],
                                       basename(od[i].input_file_path)>>
                    ELSE o.bucket = args.bucket /\ o.name = in_directory(od[i].input_file_path)}

\* the row's transfer completed in this run and the script has compared the
\* checksums
compared(i) ==
    /\ status # "crashed"
    /\ od[i].input_file_path \notin faults
    /\ IF aws_target
       THEN <<"transfer", i>> \in hist.calls /\ <<"head", i>> \in hist.calls /\ stored_s3(i) # {}
       ELSE IF variant = "process"
       THEN <<"transfer", i>> \in hist.calls /\ stored_gs(i) # {}
       ELSE variant = "process_directory" /\ <<"exists", i>> \in hist.calls /\ stored_gs(i) # {}

\* the checksum the provider reports for the stored object differs from the
\* one the script computed for the row
mismatch(i) ==
    IF aws_target THEN \E o \in stored_s3(i) : o.etag # od[i].s3_md5sum
    ELSE \E o \in stored_gs(i) : crc32c_b64(o.body) # od[i].gs_crc32c

\* the row's destination fields hold the path, date and size of the stored object
populated_from_stored(i) ==
    IF aws_target
    THEN \E o \in stored_s3(i) : /\ od[i].s3_path = s3_url(o.bucket, o.key)
                                  /\ od[i].s3_modified_date = o.mtime
                                  /\ od[i].s3_file_size = <<"int", Len(o.body)>>
    ELSE \E o \in stored_gs(i) : /\ od[i].gs_path = gs_url(o.bucket, o.name)
                                  /\ od[i].gs_modified_date = o.updated
                                  /\ od[i].gs_file_size = <<"int", Len(o.body)>>

\* the row's destination fields of the target provider are empty
destination_empty(i) ==
    IF aws_target
    THEN od[i].s3_path = <<>> /\ od[i].s3_modified_date = <<>> /\ od[i].s3_file_size = <<>>
    ELSE od[i].gs_path = <<>> /\ od[i].gs_modified_date = <<>> /\ od[i].gs_file_size = <<>>

identities == {<<reader_rows[i].study_id, reader_rows[i].input_file_path>> :
                   i \in 1..Len(reader_rows)}

\* C24: once the manifest is read, every (study_id, input_file_path) pair
\* read has its own entry in od, od has as many rows as pairs were read,
\* and the pair of an entry stays what it was when the entry was loaded.
C24_IdentityUnique ==
    (variant # "process_dicom_in_gcs" /\ Len(od) > 0) =>
        /\ Len(od) = Cardinality(identities)
        /\ \A id \in identities :
               \E j \in 1..Len(od) : od[j].study_id = id[1] /\ od[j].input_file_path = id[2]
        /\ \A j \in 1..Len(od) : /\ od[j].study_id = hist.loaded[j].study_id
                                  /\ od[j].input_file_path = hist.loaded[j].input_file_path

\* ---- header and rows of the manifest file ----
\* the data lines of a file whose number of fields or whose field order
\* differs from the header line's
off_header(lines) ==
    {j \in 2..Len(lines) :
        IF variant = "process_dicom_in_gcs"
        THEN \/ Len(lines[j]) # Len(lines[1])
             \/ \E k \in 1..Len(lines[j]) : lines[j][k][1] # lines[1][k]
        ELSE DOMAIN lines[j] # DOMAIN lines[1]}

\* C25: every manifest file a Persist leaves has a header line whose field
\* names, in order, match every data line: as many fields, and field k of
\* the line is the value of header field k; also after rows were added (the
\* metadata row and the nifti row of a dicom stack).
C25_HeaderMatchesRows ==
    Len(out_file.lines) > 0 =>
        /\ variant # "process_dicom_in_gcs" => out_file.lines[1] = header_row
        /\ off_header(out_file.lines) = {}

\* ---- the authorization service ----
\* a target bucket was asked about while the authorization service could
\* not be reached
unreachable_probe ==
    \E b \in target_buckets : bucket_state(b) = "unreachable" /\ probed(b)

\* C26: when the authorization service cannot be reached during a bucket
\* probe, a run in test mode aborts with a hard error, and a live run takes
\* the bucket as not writable: the probe returns false and the run ends as
\* validation ends it for a bucket that is not writable.
C26_UnreachableByMode ==
    unreachable_probe =>
        IF args.test THEN status = "crashed" ELSE status = "exit_validation"

\* ---- Persist after every transfer ----
\* the row's transfer of this run has set its destination fields
transfer_result(rows, calls, i) ==
    /\ <<"transfer", i>> \in calls
    /\ rows[i].s3_path # <<>> \/ rows[i].gs_path # <<>>

\* the manifest file holds the row as od has it
persisted(i) == \E j \in 2..Len(out_file.lines) : out_file.lines[j] = csv_line(od[i])

\* C27: between the completion of one row's transfer and the next row's
\* there is a Persist: when a step sets the destination fields of a row
\* after its transfer, the manifest file holds the result of every other
\* row transferred in this run, so at most one result is ever unpersisted.
C27_PersistBetweenTransfers ==
    [][\A i \in 1..Len(od) :
          (/\ run' = run /\ Len(od') = Len(od)
           /\ ~transfer_result(od, hist.calls, i)
           /\ transfer_result(od', hist'.calls, i))
          => \A j \in 1..Len(od) \ {i} :
                 transfer_result(od, hist.calls, j) => persisted(j)]_vars

\* ---- phases ----
\* every checksum unit of the run has completed: the pool is drained and
\* every local row holds the checksum of each provider the run targets
checksums_complete ==
    /\ queue = <<>>
    /\ \A t \in Workers : pc[t] = "idle"
    /\ \A i \in 1..Len(od) :
           (~startswith(od[i].input_file_path, "gs://") /\ ~startswith(od[i].input_file_path, "s3://"))
           => /\ args.aws => od[i].s3_md5sum # <<>>
              /\ args.gs => od[i].gs_crc32c # <<>>

\* a step that sends a row's content to a provider
transfer_begins == \E i \in 1..Len(od) : <<"transfer", i>> \in hist'.calls \ hist.calls

\* C28: no transfer of any row begins until every checksum unit of the run
\* has completed, also when the run targets both providers.
C28_ChecksumsBeforeTransfers == [][transfer_begins => checksums_complete]_vars

\* ---- checksums of a resumed run ----
local_row(row) ==
    ~startswith(row.input_file_path, "gs://") /\ ~startswith(row.input_file_path, "s3://")

\* the checksum fields the run is to fill
checksum_fields ==
    (IF aws_target THEN {<<"s3", "s3_md5sum">>} ELSE {})
    \cup (IF args.gs /\ variant \in {"process", "process_directory"}
          THEN {<<"gs", "gs_crc32c">>} ELSE {})

\* the number of times the run has computed the checksum of row i
times_computed(h, provider, i) ==
    IF <<provider, i>> \in DOMAIN h.computed THEN h.computed[<<provider, i>>] ELSE 0

\* thread t takes the step of its checksum work item
checksum_step(t) == pc[t] \in {"calc_s3", "calc_gs"} /\ pc'[t] # pc[t]

\* C29: in a resumed run the checksum step of a row whose s3_md5sum (resp.
\* gs_crc32c) is not empty computes nothing, leaves the row unchanged and
\* issues no Persist; in a run that does not resume, the checksum of every
\* local row is computed exactly once.
C29_OnlyMissingChecksums ==
    [][/\ \A t \in Workers :
              (/\ checksum_step(t) /\ args.resume
               /\ od[wrow[t]][IF pc[t] = "calc_s3" THEN "s3_md5sum" ELSE "gs_crc32c"] # <<>>)
              => /\ od' = od /\ out_file' = out_file
                 /\ hist'.computed = hist.computed
                 /\ futures' = futures
                 /\ pc'[t] = "idle"
       /\ (~args.resume /\ run' = run) =>
              \A k \in DOMAIN hist'.computed : hist'.computed[k] <= 1
       /\ (~args.resume /\ status' = "done") =>
              \A i \in 1..Len(od') : \A c \in checksum_fields :
                  local_row(od'[i]) => times_computed(hist', c[1], i) = 1]_vars

\* a resumed run has ended, and a checksum a local row brought along was
\* not computed again
C29_Witness ==
    /\ args.resume /\ status = "done"
    /\ \E i \in 1..Len(od) : \E c \in checksum_fields :
           /\ local_row(od[i])
           /\ hist.loaded[i][c[2]] # <<>>
           /\ od[i][c[2]] = hist.loaded[i][c[2]]
           /\ times_computed(hist, c[1], i) = 0

\* ---- staging files ----
\* the main thread is inside the loop body of a transfer loop, between the
\* download of the row's source and the finally clause
in_row_body ==
    /\ status = ""
    /\ \/ pc[0] \in {"up_aws_exists", "up_aws_head", "up_gs_exists"}
       \/ /\ pc[0] \in {"lock", "seek", "truncate", "header", "row", "unlock"}
          /\ ret[0] \in {"up_aws_exists", "up_gs_exists"}

max_download_size == 1

ExecutionMethods == {"copy", "staged", "pipe", "upload"}

\* the methods that ran for row i in this run
methods_run(i) == {m \in ExecutionMethods : <<m, i>> \in hist.methods}

\* the method the source kind of row i, relative to the destination, calls for
method_due(i) ==
    LET path == od[i].input_file_path
        same == IF args.aws THEN "s3://" ELSE "gs://"
        other == IF args.aws THEN "gs://" ELSE "s3://"
    IN  IF startswith(path, same) THEN "copy"
        ELSE IF startswith(path, other)
        THEN IF Len(source_body(path)) > max_download_size THEN "pipe" ELSE "staged"
        ELSE "upload"

\* C31: a row that is neither resume-skipped nor found by the existence
\* check is sent by exactly one method, chosen by its source kind: a copy
\* inside the provider without staging for a same-provider source, a staged
\* download below max-download-size and the streaming pipe above it for a
\* cross-provider source, a direct upload for a local file.
C31_OneMethodBySourceKind ==
    variant = "process" =>
        \A i \in 1..Len(od) :
            <<"transfer", i>> \in hist.calls =>
                /\ methods_run(i) = {method_due(i)}
                /\ method_due(i) = "copy" => <<"download", i>> \notin hist.calls

\* ---- upload lists ----
\* the rows a list names, and how often a list names row i
listed(list) == {uploads[list][k] : k \in 1..Len(uploads[list])}
times_listed(i) ==
    Cardinality({k \in 1..Len(uploads.regular) : uploads.regular[k] = i})
    + Cardinality({k \in 1..Len(uploads.multipart) : uploads.multipart[k] = i})

\* categorize_files_for_upload has returned
categorized == pc[0] \in {"up_regular", "up_regular_wait", "up_multipart", "up_multipart_wait",
                          "final", "close"}
               \/ (pc[0] \in {"lock", "seek", "truncate", "header", "row", "unlock"}
                   /\ ret[0] \in {"up_regular", "up_multipart", "final", "close"})

\* the pool threads inside handle_aws_file_upload
uploading == {t \in DOMAIN pc \ {0} : pc[t] = "upload"}

\* the times handle_aws_file_upload has been run for row i (the work items
\* of a list are the list's entries, each submitted once)
times_uploaded(i) ==
    IF <<"transfer", i>> \in hist.calls THEN times_listed(i) ELSE 0

\* C32: after categorization every row is in exactly one class (present
\* remotely and in neither list, regular below the threshold, multipart at
\* or above it), no row is listed twice, each listed row is uploaded exactly
\* once when the script has ended, and at most upload_threads regular
\* uploads or one multipart upload run at a time.
C32_ThresholdGated ==
    variant = "process_localdir_to_aws" =>
        /\ \A i \in 1..Len(od) : times_listed(i) <= 1
        /\ categorized =>
               \A i \in 1..Len(od) :
                   IF i \in listed("regular")
                   THEN od[i].file_size[2] < boto_multipart_threshold
                   ELSE IF i \in listed("multipart")
                   THEN od[i].file_size[2] >= boto_multipart_threshold
                   ELSE startswith(od[i].s3_path, "s3://")
        /\ \A i \in 1..Len(od) : times_uploaded(i) <= 1
        /\ status \in {"done", "crashed"} =>
               \A i \in listed("regular") \cup listed("multipart") : times_uploaded(i) = 1
        /\ pc[0] = "up_regular_wait" => Cardinality(uploading) <= args.threads
        /\ pc[0] = "up_multipart_wait" => Cardinality(uploading) <= 1
        /\ pc[0] \notin UploadWaits => uploading = {}

\* ---- cached writability ----
\* read_and_verify_file has returned and the script has gone on
past_validation == pc[0] # "main"

\* the memo dict of provider B (gs) or provider A (aws) holds 1 for bucket b
cached_writeable(memo, b) == b \in DOMAIN memo /\ memo[b] = 1

\* C33: when the checksum phase or a transfer begins, every row's target
\* bucket has the cached answer 1 in gs_buckets or aws_buckets: a bucket
\* that is missing, or whose probe ends without an answer, keeps the run
\* from passing validation.
C33_CachedWriteable ==
    variant \in {"process", "process_directory"} /\ past_validation =>
        \A b \in target_buckets :
            /\ args.gs => cached_writeable(gs_buckets, b)
            /\ args.aws => cached_writeable(aws_buckets, b)

\* ---- the integer-checksum cache ----
\* upload_to_gcloud is about to compute the destination key of row wrow[0]:
\* bucket.blob(gs_crc32c[value['input_file_path']] + '/' + file)
computes_gs_key == variant = "process" /\ status = "" /\ pc[0] = "up_gs_exists"

\* C34: when upload_to_gcloud computes a row's destination key, gs_crc32c
\* holds an entry for the row's input_file_path, and the entry is the
\* unsigned 32-bit integer that the row's base64 gs_crc32c field decodes to.
C34_CacheMatchesField ==
    computes_gs_key =>
        LET value == od[wrow[0]] IN
        /\ value.input_file_path \in DOMAIN gs_crc32c
        /\ Len(value.gs_crc32c) > 0
        /\ gs_crc32c[value.input_file_path] = crc32c_uint(value.gs_crc32c)

\* the key of a gs:// source is computed in a --resume run
C34_Witness ==
    /\ computes_gs_key
    /\ args.resume
    /\ startswith(od[wrow[0]].input_file_path, "gs://")

\* ---- reads that fail ----
\* the digest fields the complete stream gives
full_digests(d) ==
    {calculate_s3_md5sum(d.bytes, d.chunk_size), calculate_md5sum(d.bytes),
     crc32c_b64(d.bytes)}

\* the read of the source has failed: the open was refused or a read raised
read_failed(d) == d.pc = "raised" \/ (d.bad = 0 /\ d.pc \in {"persist", "returned"})

\* C35: when reading a row's source fails during checksum computation (the
\* open is refused, or a read fails after some chunks were read), the row's
\* digest fields stay empty; a digest field is written only after the whole
\* stream has been read, so no partial digest is stored or persisted.
C35_NoPartialDigest ==
    dg.variant \in ReadVariants =>
        \A f \in {"s3_md5sum", "md5sum", "gs_crc32c"} :
            /\ read_failed(dg) => dg[f] \in {<<>>, None} /\ dg.written[f] = <<>>
            /\ dg[f] \notin {<<>>, None} => dg.pos = Len(dg.bytes) /\ dg[f] \in full_digests(dg)
            /\ dg.written[f] # <<>> => dg.written[f] = dg[f]

\* a read failed after at least one chunk was read
C35_Witness ==
    /\ dg.variant \in ReadVariants
    /\ dg.pc = "raised" /\ dg.pos > 0

\* ---- streamed ranges ----
\* the ranges [k*B, min((k+1)*B, S) - 1] for k = 0 .. ceil(S/B) - 1
ranges_due(size, buffer_size) ==
    [k \in 1..CeilDiv(size, buffer_size) |->
        <<(k - 1) * buffer_size, Min(k * buffer_size, size) - 1>>]

\* s is the sequence of the first Len(s) entries of t
is_head(s, t) == Len(s) <= Len(t) /\ \A k \in 1..Len(s) : s[k] = t[k]

\* what the function has done so far is the beginning of what is due, and
\* all of it once the function has returned
streamed_as_due ==
    LET due == ranges_due(dg.size, dg.buffer_size) IN
    /\ is_head(dg.requests, due)
    /\ is_head(dg.written, dg.requests) /\ dg.fed = dg.written
    /\ \A k \in 1..Len(dg.parts) : dg.parts[k] = k
    /\ dg.pc = "returned" =>
           /\ dg.requests = due /\ dg.written = due
           /\ dg.variant = "gcloud_to_s3" /\ dg.size > dg.buffer_size =>
                  Len(dg.parts) = CeilDiv(dg.size, dg.buffer_size)

\* C36: in the streaming transfers, for every object size S > 0 and buffer
\* size B the loop terminates, the byte ranges requested are exactly
\* [k*B, min((k+1)*B, S) - 1] for k = 0 .. ceil(S/B) - 1, each buffer is
\* written and fed to the checksum exactly once, and the part numbers of a
\* multipart upload are 1 .. ceil(S/B).
C36_StreamedRanges ==
    /\ [](dg.variant \in StreamVariants => streamed_as_due)
    /\ dg.variant \in StreamVariants => <>(dg.pc = "returned")

\* ---- identifiers of deduplicated rows ----
\* the guid of the row that stored the object with the given key: a row of
\* this call, or the row of the earlier session, whose identifier is the
\* one its session put in the key
guid_of_uploader(key) ==
    IF \E x \in dg.stored : x[2] = key
    THEN dg.od[(CHOOSE x \in dg.stored : x[2] = key)[1]].guid
    ELSE <<"dg.4503/", uuid4(0)>>

\* C37: in process_directory, a row without identifier for which the
\* existence check finds an object under its checksum receives the
\* identifier that is in the object's path after the checksum, so it
\* carries the guid of the row that uploaded the object.
C37_DedupSharesGuid ==
    dg.variant = "upload_to_aws" =>
        \A x \in dg.found :
            x[3] = <<>> =>
                /\ dg.od[x[1]].guid = <<"dg.4503/", x[2][2]>>
                /\ dg.od[x[1]].ga4gh_drs_uri = <<"drs://", x[2][2]>>
                /\ dg.od[x[1]].guid = guid_of_uploader(x[2])

C37_Witness ==
    /\ dg.variant = "upload_to_aws"
    /\ \E x \in dg.found : x[3] = <<>> /\ \E y \in dg.stored : y[2] = x[2] /\ y[1] # x[1]

\* ---- split_manifest_file ----
\* the data lines of parts 1..k, in part order
RECURSIVE data_lines_of(_, _)
data_lines_of(files, k) ==
    IF k = 0 THEN <<>> ELSE data_lines_of(files, k - 1) \o Tail(files[k])

\* C38: for a manifest of L data lines and --num n >= 1, split_manifest_file
\* writes the parts 1..ceil(L/n), each once; each part starts with the
\* header and holds at most n data lines, exactly n but for the last; the
\* parts' data lines in part order are the original data lines; L = 0
\* writes no part.
C38_SplitParts ==
    dg.variant = "split_manifest_file" /\ dg.pc = "returned" =>
        LET L == Len(dg.tsv) - 1
            n == dg.num
            last == CeilDiv(L, n)
        IN  /\ DOMAIN dg.files = 1..last
            /\ dg.writes = [k \in 1..last |-> k]
            /\ \A k \in 1..last :
                   /\ Len(dg.files[k]) >= 1 /\ dg.files[k][1] = dg.tsv[1]
                   /\ Len(dg.files[k]) - 1 <= n
                   /\ k < last => Len(dg.files[k]) - 1 = n
            /\ data_lines_of(dg.files, last) = Tail(dg.tsv)
            /\ L = 0 => dg.files = <<>> /\ dg.writes = <<>>

C38_Witness ==
    /\ dg.variant = "split_manifest_file" /\ dg.pc = "returned"
    /\ Len(dg.tsv) - 1 > dg.num /\ (Len(dg.tsv) - 1) % dg.num # 0
    /\ Len(dg.writes) >= 2

\* ---- the end of the transfer phase ----
TransferLoop == {"up_aws", "up_aws_exists", "up_aws_head", "up_gs", "up_gs_exists"}

\* the main thread is in upload_to_aws or upload_to_gcloud, also inside a
\* call they make of update_manifest_file
in_transfer == pc[0] \in TransferLoop \/ ret[0] \in TransferLoop

\* the transfer phase is over: the loop has been left, or an exception has
\* ended the script inside it
transfer_ended ==
    \/ status = "done"
    \/ Running /\ pc[0] \in {"final", "close"}
    \/ status = "crashed" /\ in_transfer

\* the loop has taken row i: it has gone on to the next row, or the script
\* has ended in this one
row_handled(i) ==
    \/ status = "done" \/ pc[0] \in {"final", "close"}
    \/ i < wrow[0]
    \/ status = "crashed" /\ i = wrow[0]

destination_populated(i) ==
    IF args.aws
    THEN /\ startswith(od[i].s3_path, "s3://")
         /\ od[i].s3_modified_date # <<>> /\ od[i].s3_file_size # <<>>
         /\ \E o \in s3 : s3_url(o.bucket, o.key) = od[i].s3_path
    ELSE /\ startswith(od[i].gs_path, "gs://")
         /\ od[i].gs_modified_date # <<>> /\ od[i].gs_file_size # <<>>

\* C39: the transfer phase terminates and takes each manifest row exactly
\* once; when it has ended every row has been handled and its destination
\* is populated (also when resume skipped it) or empty; the receipt
\* manifest is uploaded only after the last row and the close of the file.
C39_TransferEnds ==
    /\ (variant = "process" /\ Running /\ in_transfer) ~> (~Running \/ pc[0] \in {"final", "close"})
    /\ [][variant = "process" /\ run' = run /\ wrow[0] # wrow'[0] /\ pc[0] \in TransferLoop
            => wrow'[0] = wrow[0] + 1]_vars
    /\ [](variant = "process" /\ transfer_ended =>
            /\ \A i \in 1..Len(od) :
                   row_handled(i) /\ (destination_populated(i) \/ destination_empty(i))
            /\ status = "done" => ~out_file.open)

====
